---------------------------- MODULE Spec2Model ----------------------------
(***************************************************************************)
(* A model of kcp-go's session and listener layer (sess.go): UDPSession     *)
(* Read / Write / Close / deadlines, the client read loop, the listener     *)
(* monitor and its accept queue.  The KCP ARQ core, the updater and the     *)
(* FEC codec live in files that are not part of src/; they are modelled     *)
(* from the behavioural contract of spec.md sections 4.3, 4.4 and 4.7.      *)
(***************************************************************************)
EXTENDS Integers, Sequences, FiniteSets, TLC

(***************************************************************************)
(* Program constants (sess.go:30-51) and protocol constants of kcp.go and   *)
(* fec.go (spec.md section 6).                                              *)
(***************************************************************************)
nonceSize == 16
crcSize == 4
cryptHeaderSize == nonceSize + crcSize
acceptBacklog == 128
qlen == 128
IKCP_OVERHEAD == 24
IKCP_CMD_PUSH == 81
IKCP_CMD_ACK == 82
fecHeaderSizePlus2 == 8
typeData == 241
typeFEC == 242
mtuLimit == 1500

(***************************************************************************)
(* Bounds of the model.                                                     *)
(***************************************************************************)
\* mss of the KCP core after SetMtu (bytes of one segment)
Mss == 2
\* snd_wnd of the KCP core
SndWnd == 2
\* rcv_wnd of the KCP core
RcvWnd == 2
\* largest buffer an application thread passes to Read or Write
MaxBuf == 3
\* the clock runs from 0 to MaxTime; deadlines are 1..MaxTime-1
MaxTime == 2
\* calls the application threads make in all
MaxCalls == 3
\* datagrams of an arbitrary peer inside the ingress pipeline at one time
MaxInFlight == 1
\* datagrams the carrier hands to a receiver task
MaxArrivals == 2
\* sequence numbers an arbitrary peer uses are 0..MaxSn-1
MaxSn == 2
\* peers of the listener that send arbitrary datagrams
MaxTalkers == 2
\* further peers, each sending one first datagram (more than the backlog holds)
MaxFlood == 130
\* the peers that open a session in the Accept scenario
MaxAccepts == 2
\* datagrams the network loses between two linked carriers
MaxLoss == 1
\* data shards and parity shards of one FEC group
DataShards == 1
ParityShards == 1
\* firings of a resend timer while a datagram or an ACK is still on its way
MaxCross == 1
\* the largest dup the application sets
MaxDup == 1

NIL == "nil"
\* no session id, no address, no datagram
NoSess == 0
NoAddr == -1
NoDatagram == [from |-> NoAddr]
errBrokenPipe == "broken pipe"
errTimeout == "i/o timeout"
errCarrier == "carrier error"
errClosing == "use of closed network connection"

Min(a, b) == IF a < b THEN a ELSE b
Take(s, n) == SubSeq(s, 1, Min(n, Len(s)))
Drop(s, n) == SubSeq(s, Min(n, Len(s)) + 1, Len(s))

RECURSIVE SetToSeq(_)
\* the elements of a finite set of records with an sn field, by ascending sn
SetToSeq(S) ==
    IF S = {} THEN <<>>
    ELSE LET m == CHOOSE x \in S : \A y \in S : x.sn <= y.sn
         IN  <<m>> \o SetToSeq(S \ {m})

RECURSIVE Flatten(_)
Flatten(ss) == IF ss = <<>> THEN <<>> ELSE Head(ss) \o Flatten(Tail(ss))

(***************************************************************************)
(* The KCP ARQ core (kcp.go, modelled from spec.md 4.4).  Segments are      *)
(* [conv, cmd, sn, una, data]; every Send of the session layer is at most   *)
(* mss bytes, so each message is one segment (frg = 0).                     *)
(***************************************************************************)
NewKCP(conv) ==
    [conv |-> conv, mss |-> Mss, snd_wnd |-> SndWnd, rcv_wnd |-> RcvWnd,
     snd_una |-> 0, snd_nxt |-> 0, rcv_nxt |-> 0,
     snd_queue |-> <<>>, snd_buf |-> <<>>,
     rcv_buf |-> {}, rcv_queue |-> <<>>, acklist |-> {}]

WaitSnd(k) == Len(k.snd_buf) + Len(k.snd_queue)

PeekSize(k) == IF k.rcv_queue = <<>> THEN -1 ELSE Len(Head(k.rcv_queue))

\* Send appends one message to the send queue; an empty buffer appends nothing
KcpSend(k, b) ==
    IF Len(b) = 0 THEN k ELSE [k EXCEPT !.snd_queue = Append(@, b)]

RECURSIVE MoveToQueue(_)
\* segments leave the receive buffer only in order and within rcv_wnd
MoveToQueue(k) ==
    IF /\ Len(k.rcv_queue) < k.rcv_wnd
       /\ \E e \in k.rcv_buf : e.sn = k.rcv_nxt
    THEN LET e == CHOOSE x \in k.rcv_buf : x.sn = k.rcv_nxt
         IN  MoveToQueue([k EXCEPT !.rcv_buf = @ \ {e},
                                   !.rcv_queue = Append(@, e.data),
                                   !.rcv_nxt = @ + 1])
    ELSE k

\* Recv removes the next complete message and refills the queue
KcpRecv(k) == MoveToQueue([k EXCEPT !.rcv_queue = Tail(@)])

\* una and ACK remove acknowledged segments from the send buffer
Unacked(buf, seg) ==
    SelectSeq(buf, LAMBDA e : e.sn >= seg.una /\ ~(seg.cmd = IKCP_CMD_ACK /\ e.sn = seg.sn))

SetBuf(k, buf) ==
    [k EXCEPT !.snd_buf = buf,
              !.snd_una = IF buf = <<>> THEN k.snd_nxt ELSE Head(buf).sn]

ShrinkBuf(k, seg) == SetBuf(k, Unacked(k.snd_buf, seg))

\* a PUSH inside the receive window is acknowledged, and stored unless it is
\* a duplicate
StorePush(k, seg) ==
    IF seg.cmd = IKCP_CMD_PUSH /\ seg.sn < k.rcv_nxt + k.rcv_wnd
    THEN MoveToQueue([k EXCEPT !.acklist = @ \cup {seg.sn},
                               !.rcv_buf = IF /\ seg.sn >= k.rcv_nxt
                                              /\ \A e \in k.rcv_buf : e.sn # seg.sn
                                           THEN @ \cup {[sn |-> seg.sn, data |-> seg.data]}
                                           ELSE @])
    ELSE k

InputSeg(k, seg) == StorePush(ShrinkBuf(k, seg), seg)

\* malformed framing: a foreign conversation, an unknown command
SegError(k, seg) ==
    IF seg.conv # k.conv THEN -1
    ELSE IF seg.cmd \notin {IKCP_CMD_PUSH, IKCP_CMD_ACK} THEN -3
    ELSE 0

RECURSIVE KcpInput(_, _)
\* Input parses a sequence of segments; malformed framing ends it with ret # 0.
\* The core after one segment is bound as a value before the next is parsed.
KcpInput(k, segs) ==
    IF segs = <<>> THEN [kcp |-> k, ret |-> 0]
    ELSE IF SegError(k, Head(segs)) # 0 THEN [kcp |-> k, ret |-> SegError(k, Head(segs))]
    ELSE CHOOSE r \in {KcpInput(k1, Tail(segs)) : k1 \in {InputSeg(k, Head(segs))}} : TRUE

AckSegs(k) ==
    SetToSeq({[conv |-> k.conv, cmd |-> IKCP_CMD_ACK, sn |-> a,
               una |-> k.rcv_nxt, data |-> <<>>] : a \in k.acklist})

\* after a parse without error a caller with ackNoDelay has the queued ACKs
\* flushed at once: flush(true), the ACK-only flush
AckFlush(r, ackNoDelay) ==
    IF r.ret = 0 /\ ackNoDelay /\ r.kcp.acklist # {}
    THEN [kcp |-> [r.kcp EXCEPT !.acklist = {}], ret |-> 0, out |-> AckSegs(r.kcp)]
    ELSE [kcp |-> r.kcp, ret |-> r.ret, out |-> <<>>]

\* Input(data, regular, ackNoDelay); `out` is what the output callback is
\* given before Input returns
Input(k, segs, ackNoDelay) ==
    CHOOSE in \in {AckFlush(r, ackNoDelay) : r \in {KcpInput(k, segs)}} : TRUE

RECURSIVE FillBuf(_)
\* flush step 4: the send queue feeds the send buffer inside the window
FillBuf(k) ==
    IF k.snd_queue # <<>> /\ k.snd_nxt < k.snd_una + k.snd_wnd
    THEN FillBuf([k EXCEPT !.snd_buf = Append(@, [sn |-> k.snd_nxt,
                                                   data |-> Head(k.snd_queue),
                                                   xmit |-> 0]),
                           !.snd_queue = Tail(@),
                           !.snd_nxt = @ + 1])
    ELSE k

PushSegs(k, due) ==
    [i \in 1..Len(due) |->
        [conv |-> k.conv, cmd |-> IKCP_CMD_PUSH, sn |-> due[i].sn,
         una |-> k.rcv_nxt, data |-> due[i].data]]

\* flush steps 4 and 5 on a core whose ACKs have been taken
Transmit(k, rto) ==
    [kcp |-> [k EXCEPT !.snd_buf = [i \in 1..Len(@) |-> [@[i] EXCEPT !.xmit = 1]]],
     out |-> PushSegs(k, SelectSeq(k.snd_buf, LAMBDA e : e.xmit = 0 \/ rto))]

PrependAcks(acks, tx) == [kcp |-> tx.kcp, out |-> acks \o tx.out]

\* flush: ACKs, then the window, then first transmissions and (when the
\* resend timer has fired, `rto`) retransmissions; `out` is what the output
\* callback is given
KcpFlush(k, rto) ==
    CHOOSE fl \in {PrependAcks(AckSegs(k), tx) :
                     tx \in {Transmit(k1, rto) :
                               k1 \in {FillBuf([k EXCEPT !.acklist = {}])}}} : TRUE

(***************************************************************************)
(* Datagrams.  A datagram on the carrier is                                 *)
(*   [from, n, csum, seqid, flag, segs, rec]                                *)
(* from: sender address; n: its length in bytes; csum: the CRC32 field of   *)
(* the crypto header; seqid and flag: the FEC header's first two fields     *)
(* (the encoder's numbering of shards is not modelled: seqid is 0); segs:   *)
(* the KCP segments                                                         *)
(* it carries; rec: the data shards the FEC decoder reconstructs when this  *)
(* datagram arrives (the decoder is an oracle, spec.md 4.3).                *)
(***************************************************************************)
fecHeaderSize == 6
CrcMod == 251

RECURSIVE SegBytes(_)
\* the bytes of a run of segments: a 24-byte header and the payload each
SegBytes(segs) ==
    IF segs = <<>> THEN 0
    ELSE IKCP_OVERHEAD + Len(Head(segs).data) + SegBytes(Tail(segs))

RECURSIVE SegHash(_)
SegHash(segs) ==
    IF segs = <<>> THEN 0
    ELSE (Head(segs).conv + 3 * Head(segs).cmd + 5 * Head(segs).sn
          + 7 * Head(segs).una + 11 * Len(Head(segs).data)
          + 13 * SegHash(Tail(segs))) % CrcMod

\* crc32.ChecksumIEEE over the bytes that follow the CRC field
ChecksumIEEE(d) == (d.n + 17 * d.flag + SegHash(d.segs)) % CrcMod

HeaderSize(block, fec) ==
    (IF block THEN cryptHeaderSize ELSE 0) + (IF fec THEN fecHeaderSizePlus2 ELSE 0)

(***************************************************************************)
(* State.                                                                   *)
(***************************************************************************)
VARIABLES
    sess,      \* session id -> UDPSession (sess.go:72-110)
    lst,       \* the Listener (sess.go:690-704) and its monitor and receiver tasks
    rx,        \* client session id -> its receiver and readLoop tasks
    conn,      \* carrier -> [closed, inbox]: the packet connections
    updater,   \* sessions registered with the global updater
    snmp,      \* DefaultSnmp counters
    now,       \* the clock
    pc,        \* application thread -> where it is
    frame,     \* application thread -> the call it is in
    ret,       \* application thread -> what its last call returned
    hist,      \* session id -> history of the session (observation only)
    env        \* the scenario: what the carriers are attached to, budgets used

vars == <<sess, lst, rx, conn, updater, snmp, now, pc, frame, ret, hist, env>>

Threads == {"t1", "t2"}
SessIds == DOMAIN sess

\* carriers: the client session's own connection and the listener's
ClientConn == "cc"
ListenConn == "lc"
\* addresses: the listener is 0, peers are 1, 2, ...; the dialling client is peer 1
ServerAddr == 0
ClientAddr == 1


(***************************************************************************)
(* newUDPSession (sess.go:122-181).  die counts the close(die) executed:    *)
(* the channel is closed iff die > 0.  The event channels have capacity 1.  *)
(* mu is the task that holds the session mutex (NIL: none); the actions     *)
(* that take a whole locked section as one step leave it NIL.               *)
(***************************************************************************)
Session(conv, l, c, remote, block, fec) ==
    [l |-> l, conn |-> c, remote |-> remote, block |-> block, fec |-> fec,
     headerSize |-> HeaderSize(block, fec),
     kcp |-> NewKCP(conv), bufptr |-> <<>>, rd |-> 0, wd |-> 0,
     writeDelay |-> FALSE, ackNoDelay |-> FALSE, dup |-> 0,
     die |-> 0, chReadEvent |-> 0, chWriteEvent |-> 0, chErrorEvent |-> <<>>,
     isClosed |-> FALSE, mu |-> NIL]

\* a faulty count that takes every session for a dialled one
OpenCountersActive(m, l) ==
    [m EXCEPT !.ActiveOpens = @ + 1, !.CurrEstab = @ + 1,
              !.MaxConn = IF m.CurrEstab + 1 > @ THEN m.CurrEstab + 1 ELSE @]

\* the counters newUDPSession moves (sess.go:168-178)
OpenCounters(m, l) ==
    LET m1 == IF l = NIL THEN [m EXCEPT !.ActiveOpens = @ + 1]
                         ELSE [m EXCEPT !.PassiveOpens = @ + 1]
        currestab == m1.CurrEstab + 1
    IN  [m1 EXCEPT !.CurrEstab = currestab,
                   !.MaxConn = IF currestab > @ THEN currestab ELSE @]

NoHist ==
    [written |-> <<>>, readout |-> <<>>, recvd |-> <<>>,
     closeOK |-> 0, closeRet |-> FALSE, connCloses |-> 0, estabDecs |-> 0,
     inputs |-> 0, regular |-> 0, writes |-> 0,
     lastWrite |-> [waitsnd |-> 0, wnd |-> 0, mss |-> 0, sends |-> <<>>, b |-> <<>>]]

NoFrame == [op |-> NIL]
NoRet == [op |-> NIL]

\* a faulty post that queues every notification
notifyReadEventQueued(S) == [S EXCEPT !.chReadEvent = @ + 1]

\* a select with a default case on a channel of capacity 1 (sess.go:539-551)
notifyReadEvent(S) == [S EXCEPT !.chReadEvent = IF @ < 1 THEN @ + 1 ELSE @]
notifyWriteEvent(S) == [S EXCEPT !.chWriteEvent = IF @ < 1 THEN @ + 1 ELSE @]

\* what a call returned: (n, err), with what the call was (the session, the
\* length of its buffer, its number among the calls made) and three
\* observations: it began after a Close had returned, it was blocked when
\* the session was closed, it has waited in its select
Result(f, n, err) ==
    [op |-> f.op, s |-> f.s, call |-> f.call, blen |-> f.blen, n |-> n, err |-> err,
     afterClose |-> f.afterClose, atClose |-> f.atClose, waited |-> f.waited]

Returned(t, f, n, err) ==
    /\ pc' = [pc EXCEPT ![t] = "idle"]
    /\ frame' = [frame EXCEPT ![t] = NoFrame]
    /\ ret' = [ret EXCEPT ![t] = Result(f, n, err)]

NewFrame(op, s, blen, b) ==
    [op |-> op, s |-> s, call |-> env.calls + 1, blen |-> blen, b |-> b,
     timer |-> 0, seen |-> 0,
     afterClose |-> hist[s].closeRet, atClose |-> FALSE, waited |-> FALSE]

\* the application makes env.callBudget calls in all; the Accept and Read calls of
\* a thread that reads in a loop (env.readers) are outside that budget
Free(t, op) == op \in {"Read", "Accept"} /\ t \in env.readers
CanCall(t, op) == pc[t] = "idle" /\ (Free(t, op) \/ env.calls < env.callBudget)
Called(t, op) == IF Free(t, op) THEN env ELSE [env EXCEPT !.calls = @ + 1]

(***************************************************************************)
(* Read (sess.go:184-252).  One pass of the loop from Lock to Unlock is one *)
(* step; the select is a second one.                                        *)
(***************************************************************************)
\* a faulty copy that forgets the bytes it did not copy
CopyLossy(blen, src) == [n |-> Min(blen, Len(src)), out |-> Take(src, blen), rest |-> <<>>]

\* n = copy(b, src): the bytes copied and the bytes left
Copy(blen, src) == [n |-> Min(blen, Len(src)), out |-> Take(src, blen), rest |-> Drop(src, blen)]

\* a faulty test that takes the deadline's own instant for after it
DeadlinePassedEarly(d, clock) == d # 0 /\ clock >= d

\* time.Now().After(d) for a non-zero deadline d
DeadlinePassed(d, clock) == d # 0 /\ clock > d

\* the timer armed for a non-zero deadline: it fires at d (0: no timer, c is nil)
ArmTimer(d) == d

ReadStep(t, f) ==
    LET s == f.s
        S == sess[s]
        size == PeekSize(S.kcp)
    IN  IF Len(S.bufptr) > 0
        THEN LET c == Copy(f.blen, S.bufptr)
             IN  /\ sess' = [sess EXCEPT ![s].bufptr = c.rest]
                 /\ hist' = [hist EXCEPT ![s].readout = @ \o c.out]
                 /\ Returned(t, f, c.n, NIL)
                 /\ UNCHANGED snmp
        ELSE IF S.isClosed
        THEN /\ Returned(t, f, 0, errBrokenPipe)
             /\ UNCHANGED <<sess, hist, snmp>>
        ELSE IF size > 0
        THEN LET msg == Head(S.kcp.rcv_queue)
                 c == Copy(f.blen, msg)
             IN  /\ sess' = [sess EXCEPT ![s].kcp = KcpRecv(@),
                                         ![s].bufptr = IF f.blen >= size THEN @ ELSE c.rest]
                 /\ snmp' = [snmp EXCEPT !.BytesReceived = @ + size]
                 /\ hist' = [hist EXCEPT ![s].readout = @ \o c.out,
                                         ![s].recvd = @ \o msg]
                 /\ Returned(t, f, c.n, NIL)
        ELSE IF DeadlinePassed(S.rd, now)
        THEN /\ Returned(t, f, 0, errTimeout)
             /\ UNCHANGED <<sess, hist, snmp>>
        ELSE /\ pc' = [pc EXCEPT ![t] = "read_wait"]
             /\ frame' = [frame EXCEPT ![t] = [f EXCEPT !.timer = ArmTimer(S.rd),
                                                        !.seen = S.rd,
                                                        !.waited = TRUE]]
             /\ UNCHANGED <<sess, hist, snmp, ret>>

Read(t, s, blen) ==
    /\ CanCall(t, "Read")
    /\ env' = Called(t, "Read")
    /\ ReadStep(t, NewFrame("Read", s, blen, <<>>))
    /\ UNCHANGED <<lst, rx, conn, updater, now>>

ReadRetry(t) ==
    /\ pc[t] = "read_lock"
    /\ ReadStep(t, frame[t])
    /\ UNCHANGED <<lst, rx, conn, updater, now, env>>

\* the select of Read (sess.go:237-246): a case fires only when it is ready
ReadWake(t) ==
    /\ pc[t] = "read_wait"
    /\ LET f == frame[t]
           s == f.s
           S == sess[s]
       IN  \/ /\ S.chReadEvent > 0
              /\ sess' = [sess EXCEPT ![s].chReadEvent = @ - 1]
              /\ pc' = [pc EXCEPT ![t] = "read_lock"]
              /\ UNCHANGED <<frame, ret>>
           \/ /\ f.timer # 0 /\ now >= f.timer
              /\ pc' = [pc EXCEPT ![t] = "read_lock"]
              /\ UNCHANGED <<sess, frame, ret>>
           \/ /\ S.die > 0
              /\ pc' = [pc EXCEPT ![t] = "read_lock"]
              /\ UNCHANGED <<sess, frame, ret>>
           \/ /\ S.chErrorEvent # <<>>
              /\ sess' = [sess EXCEPT ![s].chErrorEvent = Tail(@)]
              /\ Returned(t, f, 0, Head(S.chErrorEvent))
    /\ UNCHANGED <<lst, rx, conn, updater, snmp, now, hist, env>>


(***************************************************************************)
(* The egress pipeline (sess.go:474-522): header, CRC32, WriteTo.  The      *)
(* cipher is an oracle whose decrypt undoes its encrypt; the datagram keeps *)
(* its fields.  A carrier that is attached to nothing (env.link = FALSE)    *)
(* accepts the write and the datagram is lost.                              *)
(***************************************************************************)
LocalAddr(S) == IF S.l = NIL THEN ClientAddr ELSE ServerAddr
Dest(S) == IF S.l = NIL THEN ListenConn ELSE ClientConn

MkDatagram(S, segs) ==
    LET d == [from |-> LocalAddr(S), n |-> S.headerSize + SegBytes(segs),
              flag |-> IF S.fec THEN typeData ELSE 0, segs |-> segs, rec |-> <<>>]
    IN  [from |-> d.from, n |-> d.n, csum |-> IF S.block THEN ChecksumIEEE(d) ELSE 0,
         seqid |-> 0, flag |-> d.flag, segs |-> d.segs, rec |-> d.rec]

\* a data shard the decoder reconstructs: its first two bytes hold sz in
\* the byte order hi says (the high byte first, or the low byte first)
Rebuilt(len, sz, hi, segs) ==
    [len |-> len, b0 |-> IF hi THEN sz \div 256 ELSE sz % 256,
     b1 |-> IF hi THEN sz % 256 ELSE sz \div 256, segs |-> segs]

\* a parity datagram of a group of one data shard, the datagram of segs: as
\* long as that datagram, with no KCP frame of its own; rec is the data
\* shard the peer's decoder reconstructs when the parity arrives (env.rebuild:
\* none, or the shard with its size low byte first or high byte first)
Parity(S, segs) ==
    LET d == [from |-> LocalAddr(S), n |-> S.headerSize + SegBytes(segs),
              flag |-> typeFEC, segs |-> <<>>,
              rec |-> IF env.rebuild = "none" THEN <<>>
                      ELSE <<Rebuilt(2 + SegBytes(segs), 2 + SegBytes(segs),
                                     env.rebuild = "big", segs)>>]
    IN  [from |-> d.from, n |-> d.n, csum |-> IF S.block THEN ChecksumIEEE(d) ELSE 0,
         seqid |-> 0, flag |-> d.flag, segs |-> d.segs, rec |-> d.rec]

\* fecEncoder.encode (sess.go:485-487; fec.go, modelled from spec.md 4.3):
\* after DataShards calls the encoder returns ParityShards parity buffers;
\* with groups of one data shard every call returns them
Encode(S, segs) ==
    IF S.fec THEN [i \in 1..ParityShards |-> Parity(S, segs)] ELSE <<>>

\* the datagrams on their way to a carrier are a bag: datagram -> copies
BagAdd(b, d, n) ==
    IF n <= 0 THEN b
    ELSE IF d \in DOMAIN b THEN [b EXCEPT ![d] = @ + n]
    ELSE [x \in DOMAIN b \cup {d} |-> IF x = d THEN n ELSE b[x]]

BagDel(b, d) ==
    IF b[d] > 1 THEN [b EXCEPT ![d] = @ - 1]
    ELSE [x \in DOMAIN b \ {d} |-> b[x]]

RECURSIVE BagAddAll(_, _)
BagAddAll(b, ds) == IF ds = <<>> THEN b ELSE BagAddAll(BagAdd(b, Head(ds), 1), Tail(ds))

\* the KCP output callback (sess.go:157-161) and output (sess.go:474-522):
\* the data datagram is written dup + 1 times, then each parity datagram
\* once; a write to a closed carrier fails and is not retried
output(cn, S, segs) ==
    IF segs = <<>> \/ ~env.link \/ cn[S.conn].closed THEN cn
    ELSE [cn EXCEPT ![Dest(S)].inbox =
              BagAddAll(BagAdd(@, MkDatagram(S, segs), S.dup + 1), Encode(S, segs))]

RECURSIVE Outputs(_, _, _)
\* the output calls of one locked section, in order
Outputs(cn, S, outs) ==
    IF outs = <<>> THEN cn ELSE Outputs(output(cn, S, Head(outs)), S, Tail(outs))

(***************************************************************************)
(* Write (sess.go:255-311).                                                 *)
(***************************************************************************)
\* a faulty loop that sends the first fragment only
FragmentFirst(b, mss) == <<Take(b, mss)>>

RECURSIVE Fragment(_, _)
\* the Send calls of the inner loop (sess.go:267-275)
Fragment(b, mss) ==
    IF Len(b) <= mss THEN <<b>>
    ELSE <<Take(b, mss)>> \o Fragment(Drop(b, mss), mss)

RECURSIVE SendAll(_, _)
SendAll(k, frags) ==
    IF frags = <<>> THEN k ELSE SendAll(KcpSend(k, Head(frags)), Tail(frags))

\* a faulty window test that always lets Write through
WindowOpenAlways(k) == TRUE

\* the window test of Write (sess.go:265)
WindowOpen(k) == WaitSnd(k) < k.snd_wnd

WriteStep(t, f) ==
    LET s == f.s
        S == sess[s]
    IN  IF S.isClosed
        THEN /\ Returned(t, f, 0, errBrokenPipe)
             /\ UNCHANGED <<sess, hist, snmp, conn>>
        ELSE IF WindowOpen(S.kcp)
        THEN \E frags \in {Fragment(f.b, S.kcp.mss)} :
             \E k1 \in {SendAll(S.kcp, frags)} :
             \E fl \in {IF WaitSnd(k1) >= k1.snd_wnd \/ ~S.writeDelay
                        THEN KcpFlush(k1, FALSE)
                        ELSE [kcp |-> k1, out |-> <<>>]} :
                 /\ sess' = [sess EXCEPT ![s].kcp = fl.kcp]
                 /\ conn' = output(conn, S, fl.out)
                 /\ snmp' = [snmp EXCEPT !.BytesSent = @ + Len(f.b)]
                 /\ hist' = [hist EXCEPT ![s].written = @ \o f.b,
                                         ![s].writes = @ + 1,
                                         ![s].lastWrite = [waitsnd |-> WaitSnd(S.kcp),
                                                           wnd |-> S.kcp.snd_wnd,
                                                           mss |-> S.kcp.mss,
                                                           sends |-> frags, b |-> f.b]]
                 /\ Returned(t, f, Len(f.b), NIL)
        ELSE IF DeadlinePassed(S.wd, now)
        THEN /\ Returned(t, f, 0, errTimeout)
             /\ UNCHANGED <<sess, hist, snmp, conn>>
        ELSE /\ pc' = [pc EXCEPT ![t] = "write_wait"]
             /\ frame' = [frame EXCEPT ![t] = [f EXCEPT !.timer = ArmTimer(S.wd),
                                                        !.seen = S.wd,
                                                        !.waited = TRUE]]
             /\ UNCHANGED <<sess, hist, snmp, conn, ret>>

\* the bytes of a Write are the next bytes of the application's stream
Write(t, s, blen) ==
    /\ CanCall(t, "Write")
    /\ env' = [Called(t, "Write") EXCEPT !.nextByte = @ + blen]
    /\ WriteStep(t, NewFrame("Write", s, blen, [i \in 1..blen |-> env.nextByte + i]))
    /\ UNCHANGED <<lst, rx, updater, now>>

WriteRetry(t) ==
    /\ pc[t] = "write_lock"
    /\ WriteStep(t, frame[t])
    /\ UNCHANGED <<lst, rx, updater, now, env>>

\* the select of Write (sess.go:301-305)
WriteWake(t) ==
    /\ pc[t] = "write_wait"
    /\ LET f == frame[t]
           s == f.s
           S == sess[s]
       IN  \/ /\ S.chWriteEvent > 0
              /\ sess' = [sess EXCEPT ![s].chWriteEvent = @ - 1]
           \/ /\ f.timer # 0 /\ now >= f.timer
              /\ UNCHANGED sess
           \/ /\ S.die > 0
              /\ UNCHANGED sess
    /\ pc' = [pc EXCEPT ![t] = "write_lock"]
    /\ UNCHANGED <<lst, rx, conn, updater, snmp, now, frame, ret, hist, env>>

(***************************************************************************)
(* Close (sess.go:314-333): updater.removeSession, then closeSession for an *)
(* accepted session (sess.go:881-888: a send on the unbuffered              *)
(* chSessionClosed, which the monitor's select receives, or the listener's  *)
(* die), then the locked part.                                              *)
(***************************************************************************)
Close(t, s) ==
    /\ CanCall(t, "Close")
    /\ env' = Called(t, "Close")
    /\ updater' = updater \ {s}
    /\ pc' = [pc EXCEPT ![t] = IF sess[s].l # NIL THEN "close_notify" ELSE "close_lock"]
    /\ frame' = [frame EXCEPT ![t] = NewFrame("Close", s, 0, <<>>)]
    /\ UNCHANGED <<sess, lst, rx, conn, snmp, now, ret, hist>>

\* delete(l.sessions, deadlink.String()) (sess.go:784-785)
DeleteSession(sessions, addr) == [sessions EXCEPT ![addr] = NoSess]

\* a faulty notification that waits for the monitor and for nothing else
closeSessionSend(t) ==
    /\ pc[t] = "close_notify"
    /\ lst.mon = "select"
    /\ lst' = [lst EXCEPT !.sessions = DeleteSession(@, sess[frame[t].s].remote)]
    /\ pc' = [pc EXCEPT ![t] = "close_lock"]
    /\ UNCHANGED <<sess, rx, conn, updater, snmp, now, frame, ret, hist, env>>

closeSession(t) ==
    /\ pc[t] = "close_notify"
    /\ \/ /\ lst.mon = "select"
          /\ lst' = [lst EXCEPT !.sessions = DeleteSession(@, sess[frame[t].s].remote)]
       \/ /\ lst.die > 0
          /\ UNCHANGED lst
    /\ pc' = [pc EXCEPT ![t] = "close_lock"]
    /\ UNCHANGED <<sess, rx, conn, updater, snmp, now, frame, ret, hist, env>>

\* conn.Close() (sess.go:330, 877): the carrier is closed; one that was
\* closed already reports it
ConnClose(cn, c) ==
    [conn |-> [cn EXCEPT ![c].closed = TRUE],
     err |-> IF cn[c].closed THEN errClosing ELSE NIL]

\* a faulty guard that lets every Close through
AlreadyClosedNever(S) == FALSE

\* the guard of the locked part (sess.go:323)
AlreadyClosed(S) == S.isClosed

CloseLocked(t) ==
    /\ pc[t] = "close_lock"
    /\ LET f == frame[t]
           s == f.s
           S == sess[s]
           blocked == {u \in Threads : pc[u] \in {"read_wait", "write_wait"} /\ frame[u].s = s}
       IN  IF AlreadyClosed(S)
           THEN /\ Returned(t, f, 0, errBrokenPipe)
                /\ hist' = [hist EXCEPT ![s].closeRet = TRUE]
                /\ UNCHANGED <<sess, snmp, conn>>
           ELSE /\ sess' = [sess EXCEPT ![s].die = @ + 1, ![s].isClosed = TRUE]
                \* atomic.AddUint64(&CurrEstab, ^uint64(0)): a negative value
                \* stands for the word having wrapped below zero
                /\ snmp' = [snmp EXCEPT !.CurrEstab = @ - 1]
                /\ conn' = IF S.l = NIL THEN ConnClose(conn, S.conn).conn ELSE conn
                /\ hist' = [hist EXCEPT ![s].closeRet = TRUE,
                                        ![s].closeOK = @ + 1,
                                        ![s].estabDecs = @ + 1,
                                        ![s].connCloses = IF S.l = NIL THEN @ + 1 ELSE @]
                /\ pc' = [pc EXCEPT ![t] = "idle"]
                \* return s.conn.Close(), or nil for an accepted session
                /\ ret' = [ret EXCEPT ![t] = Result(f, 0, IF S.l = NIL
                                                          THEN ConnClose(conn, S.conn).err
                                                          ELSE NIL)]
                /\ frame' = [u \in Threads |->
                                IF u = t THEN NoFrame
                                ELSE IF u \in blocked THEN [frame[u] EXCEPT !.atClose = TRUE]
                                ELSE frame[u]]
    /\ UNCHANGED <<lst, rx, updater, now, env>>

(***************************************************************************)
(* Deadlines (sess.go:342-368) and update (sess.go:525-534).                *)
(***************************************************************************)
SetDeadline(t, s, d) ==
    /\ CanCall(t, "SetDeadline")
    /\ env' = Called(t, "SetDeadline")
    /\ sess' = [sess EXCEPT ![s] = notifyWriteEvent(notifyReadEvent([@ EXCEPT !.rd = d, !.wd = d]))]
    /\ UNCHANGED <<lst, rx, conn, updater, snmp, now, pc, frame, ret, hist>>

SetReadDeadline(t, s, d) ==
    /\ CanCall(t, "SetReadDeadline")
    /\ env' = Called(t, "SetReadDeadline")
    /\ sess' = [sess EXCEPT ![s] = notifyReadEvent([@ EXCEPT !.rd = d])]
    /\ UNCHANGED <<lst, rx, conn, updater, snmp, now, pc, frame, ret, hist>>

SetWriteDeadline(t, s, d) ==
    /\ CanCall(t, "SetWriteDeadline")
    /\ env' = Called(t, "SetWriteDeadline")
    /\ sess' = [sess EXCEPT ![s] = notifyWriteEvent([@ EXCEPT !.wd = d])]
    /\ UNCHANGED <<lst, rx, conn, updater, snmp, now, pc, frame, ret, hist>>

(***************************************************************************)
(* The setters (sess.go:371-419): each changes its field under the session *)
(* lock.                                                                    *)
(***************************************************************************)
SetWriteDelay(t, s, delay) ==
    /\ CanCall(t, "SetWriteDelay")
    /\ env' = Called(t, "SetWriteDelay")
    /\ sess' = [sess EXCEPT ![s].writeDelay = delay]
    /\ UNCHANGED <<lst, rx, conn, updater, snmp, now, pc, frame, ret, hist>>

\* kcp.WndSize(sndwnd, rcvwnd) sets snd_wnd and rcv_wnd
WndSize(k, sndwnd, rcvwnd) == [k EXCEPT !.snd_wnd = sndwnd, !.rcv_wnd = rcvwnd]

SetWindowSize(t, s, sndwnd, rcvwnd) ==
    /\ CanCall(t, "SetWindowSize")
    /\ env' = Called(t, "SetWindowSize")
    /\ sess' = [sess EXCEPT ![s].kcp = WndSize(@, sndwnd, rcvwnd)]
    /\ UNCHANGED <<lst, rx, conn, updater, snmp, now, pc, frame, ret, hist>>

\* kcp.SetMtu(mtu): MSS = MTU - IKCP_OVERHEAD
KcpSetMtu(k, mtu) == [k EXCEPT !.mss = mtu - IKCP_OVERHEAD]

\* SetMtu (sess.go:385-394) returns false and changes nothing when mtu is
\* above mtuLimit
SetMtu(t, s, mtu) ==
    /\ CanCall(t, "SetMtu")
    /\ env' = Called(t, "SetMtu")
    /\ sess' = IF mtu > mtuLimit THEN sess
               ELSE [sess EXCEPT ![s].kcp = KcpSetMtu(@, mtu - sess[s].headerSize)]
    /\ ret' = [ret EXCEPT ![t] = [op |-> "SetMtu", s |-> s, ok |-> ~(mtu > mtuLimit)]]
    /\ UNCHANGED <<lst, rx, conn, updater, snmp, now, pc, frame, hist>>

SetACKNoDelay(t, s, nodelay) ==
    /\ CanCall(t, "SetACKNoDelay")
    /\ env' = Called(t, "SetACKNoDelay")
    /\ sess' = [sess EXCEPT ![s].ackNoDelay = nodelay]
    /\ UNCHANGED <<lst, rx, conn, updater, snmp, now, pc, frame, ret, hist>>

SetDUP(t, s, dup) ==
    /\ CanCall(t, "SetDUP")
    /\ env' = Called(t, "SetDUP")
    /\ sess' = [sess EXCEPT ![s].dup = dup]
    /\ UNCHANGED <<lst, rx, conn, updater, snmp, now, pc, frame, ret, hist>>

\* the locked part of update (sess.go:525-534): flush, and the write
\* notification when the flush freed room
Flushed(s, rto) ==
    \E S \in {sess[s]} :
    \E fl \in {KcpFlush(S.kcp, rto)} :
    \E S1 \in {[S EXCEPT !.kcp = fl.kcp]} :
        /\ sess' = [sess EXCEPT ![s] = IF WaitSnd(fl.kcp) < WaitSnd(S.kcp)
                                       THEN notifyWriteEvent(S1) ELSE S1]
        /\ conn' = output(conn, S, fl.out)

update(s, rto) ==
    /\ s \in updater
    /\ Flushed(s, rto)
    /\ UNCHANGED <<lst, rx, updater, snmp, now, pc, frame, ret, hist, env>>

Tick ==
    /\ now < MaxTime
    /\ now' = now + 1
    /\ UNCHANGED <<sess, lst, rx, conn, updater, snmp, pc, frame, ret, hist, env>>


(***************************************************************************)
(* kcpInput (sess.go:553-634).  A recovered shard is [len, b0, b1, segs]:   *)
(* its length, its first two bytes, and the KCP segments that follow them.  *)
(* hist[s].inputs counts the KCP.Input calls made, hist[s].regular those    *)
(* made with regular = true.                                                *)
(***************************************************************************)
\* the size field of a shard read with its first byte as the high one
ShardSizeBig(r) == 256 * r.b0 + r.b1

\* binary.LittleEndian.Uint16(r) (sess.go:575)
ShardSize(r) == r.b0 + 256 * r.b1

\* a frame no conversation owns: what KCP parses from bytes that cut a
\* segment short or belong to the padding of the shard
Garbled == [conv |-> 0 - 1, cmd |-> IKCP_CMD_PUSH, sn |-> 0, una |-> 0, data |-> <<>>]

RECURSIVE Whole(_, _)
\* the segments of segs that lie wholly within the first n bytes
Whole(segs, n) ==
    IF segs = <<>> \/ SegBytes(<<Head(segs)>>) > n THEN <<>>
    ELSE <<Head(segs)>> \o Whole(Tail(segs), n - SegBytes(<<Head(segs)>>))

\* r[2:sz] (sess.go:577) as KCP.Input parses it: the segments that lie
\* wholly within the slice; fewer than IKCP_OVERHEAD bytes after them end
\* the parse, more are parsed as one more frame, which is malformed; a slice
\* shorter than IKCP_OVERHEAD is malformed as a whole
ShardPayload(r, sz) ==
    IF sz - 2 < IKCP_OVERHEAD THEN <<Garbled>>
    ELSE IF sz - 2 - SegBytes(Whole(r.segs, sz - 2)) < IKCP_OVERHEAD
    THEN Whole(r.segs, sz - 2)
    ELSE Whole(r.segs, sz - 2) \o <<Garbled>>

\* the output call an Input made, if it made one
Out(in) == IF in.out = <<>> THEN <<>> ELSE <<in.out>>

\* one recovered shard handed to KCP.Input (sess.go:577-581)
Recovered(acc, in) ==
    [acc EXCEPT !.kcp = in.kcp,
                !.outs = @ \o Out(in),
                !.inputs = @ + 1,
                !.fecRecovered = @ + (IF in.ret = 0 THEN 1 ELSE 0),
                !.kcpInErrors = @ + (IF in.ret = 0 THEN 0 ELSE 1)]

RECURSIVE InputRecovers(_, _)
\* the loop over the recovered shards (sess.go:573-588)
InputRecovers(acc, recovers) ==
    IF recovers = <<>> THEN acc
    ELSE IF Head(recovers).len >= 2 /\ ShardSize(Head(recovers)) <= Head(recovers).len
            /\ ShardSize(Head(recovers)) >= 2
         THEN InputRecovers(Recovered(acc, Input(acc.kcp,
                                ShardPayload(Head(recovers), ShardSize(Head(recovers))),
                                acc.ackNoDelay)),
                            Tail(recovers))
         ELSE InputRecovers([acc EXCEPT !.fecErrs = @ + 1], Tail(recovers))

\* the data datagram itself handed to KCP.Input (sess.go:567-571, 608-610)
FirstInput(in, ackNoDelay) ==
    [kcp |-> in.kcp, outs |-> Out(in), ackNoDelay |-> ackNoDelay,
     inputs |-> 1, regular |-> 1,
     kcpInErrors |-> IF in.ret # 0 THEN 1 ELSE 0, fecRecovered |-> 0, fecErrs |-> 0]

NoInput(k, ackNoDelay) ==
    [kcp |-> k, outs |-> <<>>, ackNoDelay |-> ackNoDelay,
     inputs |-> 0, regular |-> 0, kcpInErrors |-> 0, fecRecovered |-> 0,
     fecErrs |-> 0]

\* a faulty end of the locked part that posts the write notification
\* whenever data is waiting to be sent
NotifiedBacklog(S, waitsnd) ==
    [S EXCEPT !.chReadEvent = IF PeekSize(S.kcp) > 0 /\ @ < 1 THEN @ + 1 ELSE @,
              !.chWriteEvent = IF WaitSnd(S.kcp) > 0 /\ @ < 1 THEN @ + 1 ELSE @]

\* the notifications that end the locked part (sess.go:590-597, 611-616)
Notified(S, waitsnd) ==
    [S EXCEPT !.chReadEvent = IF PeekSize(S.kcp) > 0 /\ @ < 1 THEN @ + 1 ELSE @,
              !.chWriteEvent = IF WaitSnd(S.kcp) < waitsnd /\ @ < 1 THEN @ + 1 ELSE @]

Locked(S, acc) == [S |-> Notified([S EXCEPT !.kcp = acc.kcp], WaitSnd(S.kcp)), acc |-> acc]

\* the locked part: Input, then the notifications (sess.go:565-598, 606-617)
InputLocked(S, segs, isData, recovers) ==
    Locked(S, InputRecovers(IF isData
                            THEN FirstInput(Input(S.kcp, segs, S.ackNoDelay), S.ackNoDelay)
                            ELSE NoInput(S.kcp, S.ackNoDelay), recovers))

\* the counters at the end of kcpInput (sess.go:620-633)
Counted(S, m, d, r) ==
    [S |-> r.S, inputs |-> r.acc.inputs, regular |-> r.acc.regular, outs |-> r.acc.outs,
     snmp |-> [m EXCEPT !.InPkts = @ + 1,
                        !.FECParityShards = @ + (IF S.fec /\ d.flag = typeFEC THEN 1 ELSE 0),
                        !.KCPInErrors = @ + r.acc.kcpInErrors,
                        !.FECErrs = @ + r.acc.fecErrs,
                        !.FECRecovered = @ + r.acc.fecRecovered]]

\* the header checks with FEC (sess.go:557-559); data is the datagram after
\* the crypto header, its length is d.n less that header
HeaderOK(S, d) ==
    ~S.fec \/ /\ d.n - (IF S.block THEN cryptHeaderSize ELSE 0) > fecHeaderSize
              /\ d.flag \in {typeData, typeFEC}

kcpInput(S, m, d) ==
    IF ~HeaderOK(S, d)
    THEN [S |-> S, inputs |-> 0, regular |-> 0, outs |-> <<>>,
          snmp |-> [m EXCEPT !.InPkts = @ + 1, !.InErrs = @ + 1]]
    ELSE CHOOSE c \in {Counted(S, m, d, r) :
                        r \in {InputLocked(S, d.segs, ~S.fec \/ d.flag = typeData,
                                            IF S.fec THEN d.rec ELSE <<>>)}} : TRUE

\* binary.LittleEndian.Uint32(data[off:]) of a datagram after its crypto
\* header: with FEC the layout is seqid (4 bytes), flag (2), size (2), then
\* the KCP frame, which begins with the conversation id of its first segment
Uint32(d, fec, off) ==
    IF fec /\ off = 0 THEN d.seqid
    ELSE IF off = (IF fec THEN fecHeaderSizePlus2 ELSE 0)
    THEN (IF d.segs = <<>> THEN 0 ELSE Head(d.segs).conv)
    ELSE 0

\* binary.LittleEndian.Uint16(data[4:]) with FEC: the flag
Uint16(d, off) == IF off = 4 THEN d.flag ELSE 0

\* the CRC32 test of readLoop and monitor (sess.go:667-668, 731-732)
CsumOK(d) == ChecksumIEEE(d) = d.csum

\* a faulty test that takes every datagram for valid
DataValidAlways(block, d) == TRUE

\* dataValid (sess.go:663-676, 727-740)
DataValid(block, d) == IF block THEN CsumOK(d) ELSE TRUE

(***************************************************************************)
(* What a carrier read returns.  A carrier attached to an arbitrary peer    *)
(* (env.inject) may hand over any datagram of Datagrams; an attached link   *)
(* hands over what the other side wrote.                                    *)
(***************************************************************************)
MsgLen(sn) == 1 + ((sn + 1) % Mss)
Msg(sn) == [i \in 1..MsgLen(sn) |-> 10 * (sn + 1) + i]

Sealed(from, block, fec, flag, segs, rec) ==
    LET d == [from |-> from, n |-> HeaderSize(block, fec) + SegBytes(segs),
              flag |-> flag, segs |-> segs, rec |-> rec]
    IN  [from |-> from, n |-> d.n, csum |-> IF block THEN ChecksumIEEE(d) ELSE 0,
         seqid |-> 0, flag |-> flag, segs |-> segs, rec |-> rec]

PushSeg(conv, sn) == [conv |-> conv, cmd |-> IKCP_CMD_PUSH, sn |-> sn, una |-> 0, data |-> Msg(sn)]
AckSeg(conv, sn) == [conv |-> conv, cmd |-> IKCP_CMD_ACK, sn |-> sn, una |-> sn, data |-> <<>>]

\* a parity shard: no KCP frame in it
Shard(from, block, fec, flag) ==
    LET d == [from |-> from, n |-> HeaderSize(block, fec) + IKCP_OVERHEAD,
              flag |-> flag, segs |-> <<>>, rec |-> <<>>]
    IN  [from |-> from, n |-> d.n, csum |-> IF block THEN ChecksumIEEE(d) ELSE 0,
         seqid |-> 0, flag |-> flag, segs |-> <<>>, rec |-> <<>>]

\* a datagram sent with another flag in its FEC header
Reflagged(d, block, flag) ==
    [d EXCEPT !.flag = flag,
              !.csum = IF block THEN ChecksumIEEE([d EXCEPT !.flag = flag]) ELSE 0]

Datagrams(from, conv, block, fec) ==
    LET flag == IF fec THEN typeData ELSE 0
        good == {Sealed(from, block, fec, flag, <<sg>>, <<>>) :
                    sg \in {PushSeg(conv, sn) : sn \in 0..(MaxSn - 1)}
                           \cup {AckSeg(conv, sn) : sn \in 0..(MaxSn - 1)}}
        first == Sealed(from, block, fec, flag, <<PushSeg(conv, 0)>>, <<>>)
        badsum == IF block THEN {[first EXCEPT !.csum = (@ + 1) % CrcMod]} ELSE {}
        short == {[first EXCEPT !.n = HeaderSize(block, fec) + IKCP_OVERHEAD - 1, !.segs = <<>>]}
    IN  good \cup badsum \cup short
             \cup (IF fec THEN {Shard(from, block, fec, typeFEC), Reflagged(first, block, typeFEC + 1)}
                          ELSE {})

\* the shards a decoder may hand back: one whose prefix frames its segment
\* low byte first, the same with the high byte first, one that runs past the
\* end of the shard, one below 2, one too short to hold a prefix, one of two
\* segments whose prefix ends after the first, and one whose prefix ends
\* inside its segment
RecoveredShards(conv) ==
    LET segs == <<PushSeg(conv, 0)>>
        sz == 2 + SegBytes(segs)
        two == <<PushSeg(conv, 0), PushSeg(conv, 1)>>
    IN  {Rebuilt(sz, sz, FALSE, segs), Rebuilt(sz, sz, TRUE, segs),
         Rebuilt(sz, sz + 1, FALSE, segs), Rebuilt(sz, 1, FALSE, segs),
         Rebuilt(1, 0, FALSE, <<>>),
         Rebuilt(2 + SegBytes(two), sz, FALSE, two),
         Rebuilt(sz, sz - 1, FALSE, segs)}

\* the datagrams on whose arrival the decoder reconstructs shards: parity
\* datagrams with one shard or two, and a data datagram with one
Recoveries(from, conv, block) ==
    LET parity == Shard(from, block, TRUE, typeFEC)
        good == Rebuilt(2 + SegBytes(<<PushSeg(conv, 0)>>), 2 + SegBytes(<<PushSeg(conv, 0)>>),
                        FALSE, <<PushSeg(conv, 0)>>)
    IN  {[parity EXCEPT !.rec = <<r>>] : r \in RecoveredShards(conv)}
            \cup {[parity EXCEPT !.rec = <<good, Rebuilt(1, 0, FALSE, <<>>)>>],
                  Sealed(from, block, TRUE, typeData, <<PushSeg(conv, 1)>>, <<good>>)}

\* the conversation id and address of the peer at the far end of a carrier
ClientConv == 1

\* peers 1..MaxTalkers send any datagram, any number of times; the later
\* peers, env.floodPeers of them, send a first datagram and nothing else,
\* the peers in order and in rounds
FloodPeer == MaxTalkers + (env.flooded % env.floodPeers) + 1
FloodDatagram ==
    Sealed(FloodPeer, env.block, env.fec, IF env.fec THEN typeData ELSE 0,
           <<PushSeg(ClientConv, 0)>>, <<>>)

\* datagrams read from the carrier and not yet through readLoop or monitor
InFlight(c) ==
    IF c = ListenConn
    THEN Len(lst.chPacket) + (IF lst.recv = "hold" THEN 1 ELSE 0)
    ELSE Len(rx[1].chPacket) + (IF rx[1].recv = "hold" THEN 1 ELSE 0)

Injected(c) ==
    IF ~env.inject \/ env.arrivals[ClientConn] + env.arrivals[ListenConn] >= env.budget \/ InFlight(c) >= env.inflight THEN {}
    ELSE IF c = ClientConn
         THEN Datagrams(ServerAddr, ClientConv, env.block, env.fec)
                  \cup (IF env.fec /\ env.recover
                        THEN Recoveries(ServerAddr, ClientConv, env.block) ELSE {})
         ELSE UNION {Datagrams(p, ClientConv, env.block, env.fec)
                         \cup (IF env.fec /\ env.recover
                               THEN Recoveries(p, ClientConv, env.block) ELSE {}) :
                     p \in env.talkers}

Flooded(c) ==
    IF c = ListenConn /\ env.flooded < env.flood /\ InFlight(c) < env.inflight
    THEN {FloodDatagram} ELSE {}

\* a receiver task reads the next datagram when the pipeline behind it has room
Offers(c) ==
    IF InFlight(c) >= env.inflight THEN {}
    ELSE DOMAIN conn[c].inbox \cup Injected(c) \cup Flooded(c)

Arrived(c, d) ==
    /\ ~conn[c].closed
    /\ d \in Offers(c)
    /\ env' = IF d \in DOMAIN conn[c].inbox THEN env
              ELSE IF d \in Injected(c) THEN [env EXCEPT !.arrivals[c] = @ + 1]
              ELSE [env EXCEPT !.flooded = @ + 1]
    /\ conn' = IF d \in DOMAIN conn[c].inbox
               THEN [conn EXCEPT ![c].inbox = BagDel(@, d)]
               ELSE conn

\* the network loses a datagram
Lose(c) ==
    /\ env.losses < env.lossBudget
    /\ \E d \in DOMAIN conn[c].inbox : conn' = [conn EXCEPT ![c].inbox = BagDel(@, d)]
    /\ env' = [env EXCEPT !.losses = @ + 1]
    /\ UNCHANGED <<sess, lst, rx, updater, snmp, now, pc, frame, ret, hist>>

(***************************************************************************)
(* The client session's receiver (sess.go:636-652) and readLoop             *)
(* (sess.go:655-686).                                                       *)
(***************************************************************************)
\* ReadFrom returned a datagram
ReceiverRead(s, d) ==
    /\ sess[s].l = NIL
    /\ rx[s].recv = "run"
    /\ Arrived(sess[s].conn, d)
    /\ IF d.n >= sess[s].headerSize + IKCP_OVERHEAD
       THEN /\ rx' = [rx EXCEPT ![s].recv = "hold", ![s].held = d]
            /\ UNCHANGED snmp
       ELSE /\ snmp' = [snmp EXCEPT !.InErrs = @ + 1]
            /\ UNCHANGED rx
    /\ UNCHANGED <<sess, lst, updater, now, pc, frame, ret, hist>>

\* a faulty receiver that reads on after it has sent the error
ReceiverFailOn(s) ==
    /\ sess[s].l = NIL
    /\ rx[s].recv = "run"
    /\ conn[sess[s].conn].closed \/ env.mayFail
    /\ Len(sess[s].chErrorEvent) < 1
    /\ sess' = [sess EXCEPT ![s].chErrorEvent = Append(@, errCarrier)]
    /\ UNCHANGED <<lst, rx, conn, updater, snmp, now, pc, frame, ret, hist, env>>

\* ReadFrom returned an error: the carrier is closed, or it failed
ReceiverFail(s) ==
    /\ sess[s].l = NIL
    /\ rx[s].recv = "run"
    /\ conn[sess[s].conn].closed \/ env.mayFail
    /\ Len(sess[s].chErrorEvent) < 1
    /\ sess' = [sess EXCEPT ![s].chErrorEvent = Append(@, errCarrier)]
    /\ rx' = [rx EXCEPT ![s].recv = "exit"]
    /\ UNCHANGED <<lst, conn, updater, snmp, now, pc, frame, ret, hist, env>>

\* select { case ch <- data[:n]: case <-s.die: return }
ReceiverDeliver(s) ==
    /\ rx[s].recv = "hold"
    /\ \/ /\ Len(rx[s].chPacket) < qlen
          /\ rx' = [rx EXCEPT ![s].recv = "run", ![s].held = NoDatagram,
                              ![s].chPacket = Append(@, rx[s].held)]
       \/ /\ sess[s].die > 0
          /\ rx' = [rx EXCEPT ![s].recv = "exit", ![s].held = NoDatagram]
    /\ UNCHANGED <<sess, lst, conn, updater, snmp, now, pc, frame, ret, hist, env>>

readLoop(s) ==
    /\ rx[s].loop = "run"
    /\ \/ /\ rx[s].chPacket # <<>>
          /\ \E d \in {Head(rx[s].chPacket)} :
             \E r \in {kcpInput(sess[s], snmp, d)} :
                 /\ rx' = [rx EXCEPT ![s].chPacket = Tail(@)]
                 /\ IF DataValid(sess[s].block, d)
                    THEN /\ sess' = [sess EXCEPT ![s] = r.S]
                         /\ conn' = Outputs(conn, sess[s], r.outs)
                         /\ snmp' = r.snmp
                         /\ hist' = [hist EXCEPT ![s].inputs = @ + r.inputs,
                                                  ![s].regular = @ + r.regular]
                    ELSE /\ snmp' = [snmp EXCEPT !.InCsumErrors = @ + 1]
                         /\ UNCHANGED <<sess, conn, hist>>
       \/ /\ sess[s].die > 0
          /\ rx' = [rx EXCEPT ![s].loop = "exit"]
          /\ UNCHANGED <<sess, conn, snmp, hist>>
    /\ UNCHANGED <<lst, updater, now, pc, frame, ret, env>>


(***************************************************************************)
(* The Listener (sess.go:690-930).  die counts the close(die) executed.     *)
(* mon is where the monitor task is: at its select, about to send on        *)
(* chAccepts (sess.go:775), or returned.                                    *)
(***************************************************************************)
NoListener ==
    [sessions |-> <<>>, chAccepts |-> <<>>, die |-> 0, block |-> FALSE, fec |-> FALSE,
     headerSize |-> 0, lastAddr |-> NoAddr, lastSession |-> NoSess, chPacket |-> <<>>,
     recv |-> "none", held |-> NoDatagram, mon |-> "none", pending |-> NoSess,
     rd |-> 0]

\* ServeConn (sess.go:908-930)
ServeConn(block, fec, peers) ==
    [sessions |-> [p \in peers |-> NoSess], chAccepts |-> <<>>, die |-> 0,
     block |-> block, fec |-> fec, headerSize |-> HeaderSize(block, fec),
     lastAddr |-> NoAddr, lastSession |-> NoSess, chPacket |-> <<>>,
     recv |-> "run", held |-> NoDatagram, mon |-> "select", pending |-> NoSess,
     rd |-> 0]

\* an accepted session has no tasks of its own
NoTasks == [recv |-> "none", held |-> NoDatagram, loop |-> "none", chPacket |-> <<>>]
\* go sess.readLoop() (sess.go:168-169), which starts the receiver (sess.go:656-657)
ClientTasks == [recv |-> "run", held |-> NoDatagram, loop |-> "run", chPacket |-> <<>>]

\* Listener.receiver (sess.go:792-807)
ListenerRead(d) ==
    /\ lst.recv = "run"
    /\ Arrived(ListenConn, d)
    /\ IF d.n >= lst.headerSize + IKCP_OVERHEAD
       THEN /\ lst' = [lst EXCEPT !.recv = "hold", !.held = d]
            /\ UNCHANGED snmp
       ELSE /\ snmp' = [snmp EXCEPT !.InErrs = @ + 1]
            /\ UNCHANGED lst
    /\ UNCHANGED <<sess, rx, updater, now, pc, frame, ret, hist>>

ListenerFail ==
    /\ lst.recv = "run"
    /\ conn[ListenConn].closed \/ env.mayFail
    /\ lst' = [lst EXCEPT !.recv = "exit"]
    /\ UNCHANGED <<sess, rx, conn, updater, snmp, now, pc, frame, ret, hist, env>>

\* a faulty hand-off that waits for room in the queue and for nothing else
ListenerDeliverRoom ==
    /\ lst.recv = "hold"
    /\ Len(lst.chPacket) < qlen
    /\ lst' = [lst EXCEPT !.recv = "run", !.held = NoDatagram,
                          !.chPacket = Append(@, lst.held)]
    /\ UNCHANGED <<sess, rx, conn, updater, snmp, now, pc, frame, ret, hist, env>>

\* select { case ch <- inPacket{from, data[:n]}: case <-l.die: return }
ListenerDeliver ==
    /\ lst.recv = "hold"
    /\ \/ /\ Len(lst.chPacket) < qlen
          /\ lst' = [lst EXCEPT !.recv = "run", !.held = NoDatagram,
                                !.chPacket = Append(@, lst.held)]
       \/ /\ lst.die > 0
          /\ lst' = [lst EXCEPT !.recv = "exit", !.held = NoDatagram]
    /\ UNCHANGED <<sess, rx, conn, updater, snmp, now, pc, frame, ret, hist, env>>

\* the session the monitor resolves for addr (sess.go:749-754): the cached
\* one, or the map's; NoSess when there is none
Resolve(L, addr) ==
    IF addr = L.lastAddr THEN L.lastSession ELSE L.sessions[addr]

\* a faulty test that always finds room
AcceptRoomAlways(L) == TRUE

\* room in the accept queue (sess.go:757)
AcceptRoom(L) == Len(L.chAccepts) < acceptBacklog

\* the conversation id of a first datagram (sess.go:758-769): the 32-bit word
\* at offset 0 of the KCP frame, which with FEC follows the 8-byte FEC header
ConvValid(L, d) == IF L.fec THEN Uint16(d, 4) = typeData ELSE TRUE

\* a faulty offset that reads the conversation id where the datagram begins
ConvOffsetZero(fec) == 0

\* where the KCP frame begins: after the 8-byte FEC header, or at offset 0
ConvOffset(fec) == IF fec THEN fecHeaderSizePlus2 ELSE 0

ConvOf(L, d) == Uint32(d, L.fec, ConvOffset(L.fec))

NewId == Cardinality(DOMAIN sess) + 1

monitorPacket ==
    /\ lst.mon = "select"
    /\ lst.chPacket # <<>>
    /\ LET d == Head(lst.chPacket)
           L == [lst EXCEPT !.chPacket = Tail(@)]
           addr == d.from
           s == Resolve(lst, addr)
       IN  IF ~DataValid(lst.block, d)
           THEN /\ snmp' = [snmp EXCEPT !.InCsumErrors = @ + 1]
                /\ lst' = L
                /\ UNCHANGED <<sess, rx, conn, updater, hist>>
           ELSE IF s # NoSess
           THEN \E r \in {kcpInput(sess[s], snmp, d)} :
                    /\ sess' = [sess EXCEPT ![s] = r.S]
                    /\ conn' = Outputs(conn, sess[s], r.outs)
                    /\ snmp' = r.snmp
                    /\ hist' = [hist EXCEPT ![s].inputs = @ + r.inputs,
                                             ![s].regular = @ + r.regular]
                    /\ lst' = [L EXCEPT !.lastAddr = addr, !.lastSession = s]
                    /\ UNCHANGED <<rx, updater>>
           ELSE IF AcceptRoom(lst) /\ ConvValid(lst, d)
           THEN \E n \in {NewId} :
                \E S \in {Session(ConvOf(lst, d), "L", ListenConn, addr, lst.block, lst.fec)} :
                \E r \in {kcpInput(S, OpenCounters(snmp, "L"), d)} :
                    /\ sess' = (n :> r.S) @@ sess
                    /\ conn' = Outputs(conn, S, r.outs)
                    /\ snmp' = r.snmp
                    /\ hist' = (n :> [NoHist EXCEPT !.inputs = r.inputs,
                                                     !.regular = r.regular]) @@ hist
                    /\ rx' = (n :> NoTasks) @@ rx
                    /\ updater' = updater \cup {n}
                    /\ lst' = [L EXCEPT !.sessions[addr] = n, !.mon = "enqueue",
                                        !.pending = n]
           ELSE /\ lst' = L
                /\ UNCHANGED <<sess, snmp, rx, conn, updater, hist>>
    /\ UNCHANGED <<now, pc, frame, ret, env>>

\* l.chAccepts <- s (sess.go:775): a send on a channel of capacity acceptBacklog
monitorEnqueue ==
    /\ lst.mon = "enqueue"
    /\ Len(lst.chAccepts) < acceptBacklog
    /\ lst' = [lst EXCEPT !.chAccepts = Append(@, lst.pending), !.mon = "select",
                          !.pending = NoSess]
    /\ UNCHANGED <<sess, rx, conn, updater, snmp, now, pc, frame, ret, hist, env>>

\* case <-l.die: return (sess.go:786-787)
monitorDie ==
    /\ lst.mon = "select"
    /\ lst.die > 0
    /\ lst' = [lst EXCEPT !.mon = "exit"]
    /\ UNCHANGED <<sess, rx, conn, updater, snmp, now, pc, frame, ret, hist, env>>

\* the frame of an AcceptKCP call: timer is the deadline l.rd held when the
\* call loaded it, the instant time.After fires (0: no timer)
AcceptFrame(waited) ==
    [op |-> "Accept", s |-> NoSess, call |-> env.calls + 1, blen |-> 0, b |-> <<>>,
     timer |-> lst.rd, seen |-> 0,
     afterClose |-> FALSE, atClose |-> FALSE, waited |-> waited]

\* a faulty timer that never fires
TimerFiredNever(f, clock) == FALSE

\* time.After(tdeadline.Sub(time.Now())) has fired (sess.go:841-843, 846)
TimerFired(f, clock) == f.timer # 0 /\ clock >= f.timer

\* the select of AcceptKCP takes one of its ready cases (sess.go:845-852);
\* e is the scenario with the call counted
AcceptSelect(t, f, e) ==
    \/ /\ TimerFired(f, now)
       /\ env' = e
       /\ ret' = [ret EXCEPT ![t] = Result(f, 0, errTimeout)]
       /\ UNCHANGED lst
    \/ /\ lst.chAccepts # <<>>
       /\ lst' = [lst EXCEPT !.chAccepts = Tail(@)]
       /\ env' = [e EXCEPT !.held = @ \cup {Head(lst.chAccepts)}]
       /\ ret' = [ret EXCEPT ![t] = Result([f EXCEPT !.s = Head(lst.chAccepts)], 0, NIL)]
    \/ /\ lst.die > 0
       /\ env' = e
       /\ ret' = [ret EXCEPT ![t] = Result(f, 0, errBrokenPipe)]
       /\ UNCHANGED lst

\* AcceptKCP (sess.go:839-853) when its select finds a case ready
AcceptKCP(t) ==
    /\ CanCall(t, "Accept")
    /\ lst.mon # "none"
    /\ AcceptSelect(t, AcceptFrame(FALSE), Called(t, "Accept"))
    /\ UNCHANGED <<sess, rx, conn, updater, snmp, now, pc, frame, hist>>

\* AcceptKCP when its select finds no case ready: the caller blocks
AcceptWait(t) ==
    /\ CanCall(t, "Accept")
    /\ lst.mon # "none"
    /\ ~TimerFired(AcceptFrame(TRUE), now)
    /\ lst.chAccepts = <<>>
    /\ lst.die = 0
    /\ env' = Called(t, "Accept")
    /\ pc' = [pc EXCEPT ![t] = "accept_wait"]
    /\ frame' = [frame EXCEPT ![t] = AcceptFrame(TRUE)]
    /\ UNCHANGED <<sess, lst, rx, conn, updater, snmp, now, ret, hist>>

\* the blocked select of AcceptKCP takes a case that has become ready
AcceptWake(t) ==
    /\ pc[t] = "accept_wait"
    /\ AcceptSelect(t, frame[t], env)
    /\ pc' = [pc EXCEPT ![t] = "idle"]
    /\ frame' = [frame EXCEPT ![t] = NoFrame]
    /\ UNCHANGED <<sess, rx, conn, updater, snmp, now, hist>>

\* Listener.SetReadDeadline (sess.go:863-866): stores the deadline, wakes nobody
ListenerSetReadDeadline(t, d) ==
    /\ CanCall(t, "ListenerSetReadDeadline")
    /\ lst.mon # "none"
    /\ env' = Called(t, "ListenerSetReadDeadline")
    /\ lst' = [lst EXCEPT !.rd = d]
    /\ UNCHANGED <<sess, rx, conn, updater, snmp, now, pc, frame, ret, hist>>

\* Listener.Close (sess.go:875-878) takes no lock: close(l.die) is one
\* step (sess.go:876) and l.conn.Close() another (ListenerCloseConn).  A
\* second close(l.die) would panic; the application calls Close once.
ListenerClose(t) ==
    /\ CanCall(t, "ListenerClose")
    /\ lst.mon # "none"
    /\ lst.die = 0
    /\ env' = Called(t, "ListenerClose")
    /\ lst' = [lst EXCEPT !.die = @ + 1]
    /\ pc' = [pc EXCEPT ![t] = "lclose_conn"]
    /\ frame' = [frame EXCEPT ![t] = [op |-> "ListenerClose"]]
    /\ UNCHANGED <<sess, rx, conn, updater, snmp, now, ret, hist>>

\* return l.conn.Close() (sess.go:877)
ListenerCloseConn(t) ==
    /\ pc[t] = "lclose_conn"
    /\ conn' = ConnClose(conn, ListenConn).conn
    /\ pc' = [pc EXCEPT ![t] = "idle"]
    /\ frame' = [frame EXCEPT ![t] = NoFrame]
    /\ ret' = [ret EXCEPT ![t] = [op |-> "ListenerClose",
                                  err |-> ConnClose(conn, ListenConn).err]]
    /\ UNCHANGED <<sess, lst, rx, updater, snmp, now, hist, env>>


(***************************************************************************)
(* Scenarios and specifications.                                            *)
(***************************************************************************)
AllPeers == 1..(MaxTalkers + MaxFlood)

NoSnmp ==
    [ActiveOpens |-> 0, PassiveOpens |-> 0, CurrEstab |-> 0, MaxConn |-> 0,
     InCsumErrors |-> 0, InErrs |-> 0, InPkts |-> 0, KCPInErrors |-> 0,
     FECErrs |-> 0, FECRecovered |-> 0, FECParityShards |-> 0,
     BytesSent |-> 0, BytesReceived |-> 0]

\* link: the two carriers are attached to each other; inject: they are
\* attached to arbitrary peers; mayFail: a carrier read may fail at any time;
\* held: the sessions the application holds; readers: threads that read in a loop
\* talkers: the peers of the listener that send arbitrary datagrams, budget of
\* them in all; flood: how many further peers send a first datagram; rbufs,
\* wbufs: the buffer lengths the application passes to Read and to Write;
\* paired: thread t1 uses the dialled session 1 and thread t2 the accepted
\* sessions
Scenario ==
    [link |-> FALSE, inject |-> FALSE, mayFail |-> FALSE, block |-> FALSE, fec |-> FALSE,
     recover |-> FALSE, rebuild |-> "little", crossed |-> 0,
     lossBudget |-> MaxLoss, crossBudget |-> MaxCross,
     inflight |-> MaxInFlight, floodPeers |-> MaxFlood, peak |-> 0,
     talkers |-> {}, budget |-> MaxArrivals,
     arrivals |-> [c \in {ClientConn, ListenConn} |-> 0], flood |-> 0, flooded |-> 0,
     losses |-> 0, callBudget |-> MaxCalls, calls |-> 0, nextByte |-> 0, held |-> {1}, readers |-> {},
     paired |-> FALSE, rbufs |-> 0..MaxBuf, wbufs |-> 0..MaxBuf]

InitCommon ==
    /\ now = 0
    /\ pc = [t \in Threads |-> "idle"]
    /\ frame = [t \in Threads |-> NoFrame]
    /\ ret = [t \in Threads |-> NoRet]
    /\ conn = [c \in {ClientConn, ListenConn} |-> [closed |-> FALSE, inbox |-> <<>>]]

\* a session after the setters named in `set` have been called on it
Tuned(S, set) ==
    [S EXCEPT !.dup = IF "SetDUP" \in set THEN MaxDup ELSE @,
              !.ackNoDelay = IF "SetACKNoDelay" \in set THEN TRUE ELSE @,
              !.writeDelay = IF "SetWriteDelay" \in set THEN TRUE ELSE @]

\* a client session after NewConn (sess.go:938-942) and the setters of `set`
InitClientTuned(block, fec, set) ==
    /\ sess = (1 :> Tuned(Session(ClientConv, NIL, ClientConn, ServerAddr, block, fec), set))
    /\ rx = (1 :> ClientTasks)
    /\ hist = (1 :> NoHist)
    /\ updater = {1}
    /\ snmp = OpenCounters(NoSnmp, NIL)
    /\ lst = NoListener

\* a client session after NewConn
InitClient(block, fec) == InitClientTuned(block, fec, {})

\* a listener after ServeConn (sess.go:908-930)
InitListener(block, fec) ==
    /\ sess = <<>>
    /\ rx = <<>>
    /\ hist = <<>>
    /\ updater = {}
    /\ snmp = NoSnmp
    /\ lst = ServeConn(block, fec, AllPeers)

\* a listener whose monitor has created a session for peer 1 from a first
\* datagram that carried an ACK, and whose application has accepted it
InitAccepted(block, fec) ==
    LET first == Sealed(ClientAddr, block, fec, IF fec THEN typeData ELSE 0,
                        <<AckSeg(ClientConv, 0)>>, <<>>)
        r == kcpInput(Session(ClientConv, "L", ListenConn, ClientAddr, block, fec),
                      OpenCounters(NoSnmp, "L"), first)
    IN  /\ sess = (1 :> r.S)
        /\ rx = (1 :> NoTasks)
        /\ hist = (1 :> [NoHist EXCEPT !.inputs = r.inputs, !.regular = r.regular])
        /\ updater = {1}
        /\ snmp = r.snmp
        /\ lst = [ServeConn(block, fec, AllPeers) EXCEPT !.sessions[ClientAddr] = 1]

\* a client session after NewConn and a listener after ServeConn
InitBoth(block, fec) ==
    /\ sess = (1 :> Session(ClientConv, NIL, ClientConn, ServerAddr, block, fec))
    /\ rx = (1 :> ClientTasks)
    /\ hist = (1 :> NoHist)
    /\ updater = {1}
    /\ snmp = OpenCounters(NoSnmp, NIL)
    /\ lst = ServeConn(block, fec, AllPeers)

\* as InitBoth, after the application has called setters on the client
\* session
InitTuned(block, fec, set) ==
    /\ sess = (1 :> Tuned(Session(ClientConv, NIL, ClientConn, ServerAddr, block, fec), set))
    /\ rx = (1 :> ClientTasks)
    /\ hist = (1 :> NoHist)
    /\ updater = {1}
    /\ snmp = OpenCounters(NoSnmp, NIL)
    /\ lst = ServeConn(block, fec, AllPeers)

\* two client sessions after two NewConn calls on one carrier
InitShared ==
    /\ sess = (1 :> Session(ClientConv, NIL, ClientConn, ServerAddr, FALSE, FALSE))
                 @@ (2 :> Session(ClientConv, NIL, ClientConn, ServerAddr, FALSE, FALSE))
    /\ rx = (1 :> ClientTasks) @@ (2 :> ClientTasks)
    /\ hist = (1 :> NoHist) @@ (2 :> NoHist)
    /\ updater = {1, 2}
    /\ snmp = OpenCounters(OpenCounters(NoSnmp, NIL), NIL)
    /\ lst = NoListener

\* the sessions thread t makes its calls on
Owned(t) ==
    IF ~env.paired THEN env.held
    ELSE IF t = "t1" THEN env.held \cap {1} ELSE env.held \ {1}

ReadBy(t) == \E s \in Owned(t), blen \in env.rbufs : Read(t, s, blen)
ReadCall == \E t \in Threads : ReadBy(t)
WriteCall == \E t \in Threads : \E s \in Owned(t), blen \in env.wbufs : Write(t, s, blen)
CloseCall == \E t \in Threads, s \in env.held : Close(t, s)
DeadlineCall ==
    \E t \in Threads, s \in env.held, d \in 0..(MaxTime - 1) :
        \/ SetDeadline(t, s, d)
        \/ SetReadDeadline(t, s, d)
        \/ SetWriteDeadline(t, s, d)
\* the application tunes a session away from its defaults: it delays the
\* flush of Write, narrows the send or the receive window to one segment,
\* sets an MTU that leaves one byte for a segment or one above mtuLimit,
\* has ACKs sent at once, and has every datagram sent MaxDup more times
TuneCall ==
    \E t \in Threads, s \in env.held :
        \/ SetWriteDelay(t, s, TRUE)
        \/ \E w \in {<<1, RcvWnd>>, <<SndWnd, 1>>} : SetWindowSize(t, s, w[1], w[2])
        \/ \E mtu \in {sess[s].headerSize + IKCP_OVERHEAD + 1, mtuLimit + 1} :
              SetMtu(t, s, mtu)
        \/ SetACKNoDelay(t, s, TRUE)
        \/ SetDUP(t, s, MaxDup)
ReadSteps == \E t \in Threads : ReadRetry(t) \/ ReadWake(t)
WriteSteps == \E t \in Threads : WriteRetry(t) \/ WriteWake(t)

ClientIngress ==
    \E s \in SessIds :
        \/ \E d \in Offers(ClientConn) : ReceiverRead(s, d)
        \/ ReceiverDeliver(s)
        \/ readLoop(s)

ClientFailure == \E s \in SessIds : ReceiverFail(s)

ListenerIngress ==
    \/ \E d \in Offers(ListenConn) : ListenerRead(d)
    \/ ListenerDeliver
    \/ monitorPacket
    \/ monitorEnqueue

ListenerExit == ListenerFail \/ monitorDie

Updater == \E s \in SessIds, rto \in BOOLEAN : update(s, rto)

\* nothing is on its way between the two linked sessions, in either
\* direction: no datagram in the network or in a packet queue, no ACK waiting
\* for a flush
Quiet ==
    /\ \A c \in {ClientConn, ListenConn} : DOMAIN conn[c].inbox = {} /\ InFlight(c) = 0
    /\ \A s \in SessIds : sess[s].kcp.acklist = {}

\* the updater over a link: a flush before the resend timers expire, and one
\* after.  A resend timer may expire while the first copy of a segment or
\* its acknowledgement is still on its way; a run has at most MaxCross such
\* flushes
Flush(s) == update(s, FALSE)
Resend(s) ==
    /\ s \in updater
    /\ sess[s].kcp.snd_buf # <<>>
    /\ Quiet \/ env.crossed < env.crossBudget
    /\ env' = IF Quiet THEN env ELSE [env EXCEPT !.crossed = @ + 1]
    /\ Flushed(s, TRUE)
    /\ UNCHANGED <<lst, rx, updater, snmp, now, pc, frame, ret, hist>>
LinkUpdater == \E s \in SessIds : Flush(s) \/ Resend(s)

CloseSteps == \E t \in Threads : closeSession(t) \/ CloseLocked(t)
ListenerCloseCall == \E t \in Threads : ListenerClose(t) \/ ListenerCloseConn(t)
AcceptCall == \E t \in Threads : AcceptKCP(t)

(***************************************************************************)
(* Spec: the data path of one client session attached to an arbitrary peer. *)
(***************************************************************************)
Init ==
    /\ InitCommon
    /\ InitClient(FALSE, FALSE)
    /\ env = [Scenario EXCEPT !.inject = TRUE]

\* the data path without the setters
NextData ==
    \/ ReadCall
    \/ WriteCall
    \/ ReadSteps
    \/ WriteSteps
    \/ ClientIngress
    \/ Updater

Next == NextData \/ TuneCall

Spec == Init /\ [][Next]_vars

(***************************************************************************)
(* SpecClose: one session, dialled or accepted, whose application reads,    *)
(* writes and closes it from two threads while an arbitrary peer sends, or  *)
(* two sessions dialled over one carrier; the carrier fails only by being   *)
(* closed.                                                                  *)
(***************************************************************************)
InitClose ==
    /\ InitCommon
    /\ \/ /\ InitClient(FALSE, FALSE) \/ InitAccepted(FALSE, FALSE)
          /\ env = [Scenario EXCEPT !.inject = TRUE, !.budget = 1, !.talkers = {ClientAddr},
                                     !.rbufs = {1, MaxBuf}, !.wbufs = {1, MaxBuf}]
       \/ /\ InitShared
          /\ env = [Scenario EXCEPT !.held = {1, 2}, !.rbufs = {1}, !.wbufs = {1}]

NextClose ==
    \/ ReadCall
    \/ WriteCall
    \/ CloseCall
    \/ ListenerCloseCall
    \/ ReadSteps
    \/ WriteSteps
    \/ CloseSteps
    \/ ClientIngress
    \/ ClientFailure
    \/ ListenerIngress
    \/ ListenerExit
    \/ Updater

SpecClose == InitClose /\ [][NextClose]_vars

(***************************************************************************)
(* SpecDeadline: one dialled session with a silent peer, whose application  *)
(* reads, writes and sets deadlines from two threads while time passes.     *)
(* The scheduler runs every thread that can take a step, and the clock      *)
(* advances.                                                                *)
(***************************************************************************)
InitDeadline ==
    /\ InitCommon
    /\ InitClient(FALSE, FALSE)
    /\ env = [Scenario EXCEPT !.rbufs = {MaxBuf}, !.wbufs = {MaxBuf}]

NextDeadline ==
    \/ ReadCall
    \/ WriteCall
    \/ DeadlineCall
    \/ ReadSteps
    \/ WriteSteps
    \/ Tick

\* a thread inside Read or Write takes its next step
ThreadStep(t) ==
    \/ ReadRetry(t)
    \/ ReadWake(t)
    \/ WriteRetry(t)
    \/ WriteWake(t)

FairDeadline == WF_vars(Tick) /\ \A t \in Threads : WF_vars(ThreadStep(t))

SpecDeadline == InitDeadline /\ [][NextDeadline]_vars /\ FairDeadline

(***************************************************************************)
(* SpecIngress: a dialled session and a listener, with or without crypto,   *)
(* each receiving arbitrary datagrams.                                      *)
(***************************************************************************)
InitIngress ==
    /\ InitCommon
    /\ \E block \in BOOLEAN :
          /\ InitBoth(block, FALSE)
          /\ env = [Scenario EXCEPT !.inject = TRUE, !.block = block,
                                     !.talkers = 1..MaxTalkers]

NextIngress ==
    \/ ClientIngress
    \/ ListenerIngress

SpecIngress == InitIngress /\ [][NextIngress]_vars

(***************************************************************************)
(* SpecAdmit: a dialled session and a listener, with or without crypto and  *)
(* FEC, each receiving arbitrary datagrams: data, parity, unknown flags,    *)
(* short ones, wrong checksums.                                             *)
(***************************************************************************)
InitAdmit ==
    /\ InitCommon
    /\ \E block \in BOOLEAN, fec \in BOOLEAN :
          /\ InitBoth(block, fec)
          /\ env = [Scenario EXCEPT !.inject = TRUE, !.block = block, !.fec = fec,
                                     !.talkers = 1..MaxTalkers]

NextAdmit ==
    \/ ClientIngress
    \/ ListenerIngress

SpecAdmit == InitAdmit /\ [][NextAdmit]_vars

(***************************************************************************)
(* SpecDemux: a listener with one accepted session, whose peer keeps        *)
(* sending while the application closes the session.                        *)
(***************************************************************************)
InitDemux ==
    /\ InitCommon
    /\ InitAccepted(FALSE, FALSE)
    /\ env = [Scenario EXCEPT !.inject = TRUE, !.talkers = {ClientAddr}]

NextDemux ==
    \/ ListenerIngress
    \/ CloseCall
    \/ CloseSteps

SpecDemux == InitDemux /\ [][NextDemux]_vars

(***************************************************************************)
(* SpecFail: a dialled session whose carrier may fail at any time, while    *)
(* the application reads, sets read deadlines and closes the session.       *)
(***************************************************************************)
InitFail ==
    /\ InitCommon
    /\ InitClient(FALSE, FALSE)
    /\ env = [Scenario EXCEPT !.inject = TRUE, !.mayFail = TRUE, !.budget = 1,
                               !.rbufs = {MaxBuf}]

ReadDeadlineCall ==
    \E t \in Threads, s \in env.held, d \in 0..(MaxTime - 1) : SetReadDeadline(t, s, d)

\* the locked part of Close on a dialled session
ClientCloseSteps == \E t \in Threads : CloseLocked(t)

NextFail ==
    \/ ReadCall
    \/ ReadDeadlineCall
    \/ CloseCall
    \/ ReadSteps
    \/ ClientCloseSteps
    \/ Tick
    \/ ClientIngress
    \/ ClientFailure

FairFail == WF_vars(Tick) /\ \A t \in Threads : WF_vars(ThreadStep(t))

SpecFail == InitFail /\ [][NextFail]_vars /\ FairFail

(***************************************************************************)
(* SpecBacklog: a listener that more peers than the backlog holds send a    *)
(* first datagram to, while the application accepts a few sessions.         *)
(***************************************************************************)
InitBacklog ==
    /\ InitCommon
    /\ InitListener(FALSE, FALSE)
    /\ env = [Scenario EXCEPT !.flood = MaxFlood, !.held = {}]

NextBacklog ==
    \/ ListenerIngress
    \/ AcceptCall

SpecBacklog == InitBacklog /\ [][NextBacklog]_vars

(***************************************************************************)
(* SpecE2E: a dialled session and a listener whose carriers are linked by a *)
(* network that reorders and loses at most MaxLoss datagrams.  Thread t1    *)
(* uses the dialled session, thread t2 accepts the session the listener     *)
(* creates and uses it; each thread reads whenever it is idle.  Every task  *)
(* that can take a step is scheduled, and the updater keeps flushing with   *)
(* the resend timers expired.                                               *)
(***************************************************************************)
\* the runs of the link: two Writes of MaxBuf bytes over a network that
\* loses a datagram; one Write, a loss and a resend timer that fires early;
\* two Writes of one byte to and from a client that acknowledges at once;
\* one Write of a client with FEC that sends every datagram twice and
\* delays its flush, over a network that loses a datagram
LinkRuns ==
    {[set |-> {}, fec |-> FALSE, calls |-> 2, wbuf |-> MaxBuf, loss |-> MaxLoss, cross |-> 0],
     [set |-> {}, fec |-> FALSE, calls |-> 1, wbuf |-> MaxBuf, loss |-> MaxLoss,
      cross |-> MaxCross],
     [set |-> {"SetACKNoDelay"}, fec |-> FALSE, calls |-> 2, wbuf |-> 1, loss |-> 0,
      cross |-> 0],
     [set |-> {"SetDUP", "SetACKNoDelay", "SetWriteDelay"}, fec |-> TRUE, calls |-> 1,
      wbuf |-> 1, loss |-> MaxLoss, cross |-> 0]}

InitE2E ==
    /\ InitCommon
    /\ \E r \in LinkRuns :
          /\ InitTuned(FALSE, r.fec, r.set)
          /\ env = [Scenario EXCEPT !.link = TRUE, !.paired = TRUE, !.readers = Threads,
                                     !.callBudget = r.calls, !.rbufs = {1},
                                     !.wbufs = {r.wbuf}, !.lossBudget = r.loss,
                                     !.crossBudget = r.cross]

Network == \E c \in {ClientConn, ListenConn} : Lose(c)

NextE2E ==
    \/ ReadCall
    \/ WriteCall
    \/ AcceptCall
    \/ ReadSteps
    \/ WriteSteps
    \/ ClientIngress
    \/ ListenerIngress
    \/ LinkUpdater
    \/ Network

FairE2E ==
    /\ WF_vars(AcceptCall)
    /\ WF_vars(ClientIngress)
    /\ WF_vars(ListenerIngress)
    /\ \A t \in Threads : WF_vars(ThreadStep(t)) /\ WF_vars(ReadBy(t))
    /\ \A s \in 1..2 : WF_vars(Flush(s)) /\ WF_vars(Resend(s))

SpecE2E == InitE2E /\ [][NextE2E]_vars /\ FairE2E

(***************************************************************************)
(* Close.                                                                   *)
(***************************************************************************)
\* C2: once a Close of a session has returned, every Read and every Write
\* called on it afterwards returns the broken-pipe error and moves no bytes,
\* whatever the carry buffer, the receive queue and the send window hold
C2_BrokenPipeAfterClose ==
    \A t \in Threads :
        (ret[t].op \in {"Read", "Write"} /\ ret[t].afterClose)
            => (ret[t].n = 0 /\ ret[t].err = errBrokenPipe)

\* the carrier of session s was closed by the Close of another session
\* dialled over it
ClosedByOther(s) ==
    \E o \in SessIds \ {s} :
        sess[o].l = NIL /\ sess[o].conn = sess[s].conn /\ sess[o].isClosed

\* C3, amended: of the Close calls on one session exactly one passes the
\* closed test and every other returns broken pipe; that one closes die
\* once, decrements CurrEstab once, closes the carrier iff the session was
\* dialled, and returns what closing the carrier returns: nil, or the
\* carrier's error when another session dialled over the same carrier had
\* closed it before
C3_CloseOnceCarrier ==
    /\ [](\A s \in SessIds :
             /\ hist[s].closeOK <= 1
             /\ sess[s].die = hist[s].closeOK
             /\ hist[s].estabDecs = hist[s].closeOK
             /\ hist[s].connCloses = (IF sess[s].l = NIL THEN hist[s].closeOK ELSE 0)
             /\ hist[s].closeRet => hist[s].closeOK = 1
             /\ sess[s].isClosed <=> hist[s].closeOK = 1)
    /\ [](\A t \in Threads :
             ret[t].op = "Close" =>
                /\ ret[t].err \in {NIL, errBrokenPipe, errClosing}
                /\ ret[t].err = errClosing =>
                      sess[ret[t].s].l = NIL /\ ClosedByOther(ret[t].s))
    /\ [][\A t \in Threads :
             (pc[t] = "close_lock" /\ pc'[t] = "idle") =>
                ret'[t].err = IF sess[frame[t].s].isClosed THEN errBrokenPipe
                              ELSE IF sess[frame[t].s].l = NIL /\ ClosedByOther(frame[t].s)
                              THEN errClosing
                              ELSE NIL]_vars
    /\ [](snmp.CurrEstab = snmp.ActiveOpens + snmp.PassiveOpens
                             - Cardinality({s \in SessIds : sess[s].isClosed}))
    /\ [](conn[ClientConn].closed <=> \E s \in SessIds : sess[s].l = NIL /\ sess[s].isClosed)
    /\ [](conn[ListenConn].closed => lst.die > 0)

\* the first Close of a session has returned the carrier's error, and a
\* second Close of that session has returned broken pipe
C3_WitnessCarrier ==
    \E t, u \in Threads :
        /\ ret[t].op = "Close" /\ ret[t].err = errClosing
        /\ ret[u].op = "Close" /\ ret[u].err = errBrokenPipe
        /\ ret[u].s = ret[t].s

\* C3 as stated: of the Close calls on one session exactly one succeeds and
\* every other returns broken pipe; die is closed once, CurrEstab is
\* decremented once, and the carrier is closed iff the session was dialled
C3_CloseOnce ==
    /\ \A s \in SessIds :
          /\ hist[s].closeOK <= 1
          /\ sess[s].die = hist[s].closeOK
          /\ hist[s].estabDecs = hist[s].closeOK
          /\ hist[s].connCloses = (IF sess[s].l = NIL THEN hist[s].closeOK ELSE 0)
          /\ hist[s].closeRet => hist[s].closeOK = 1
          /\ sess[s].isClosed <=> hist[s].closeOK = 1
    /\ \A t \in Threads : ret[t].op = "Close" => ret[t].err \in {NIL, errBrokenPipe}
    /\ snmp.CurrEstab = snmp.ActiveOpens + snmp.PassiveOpens
                          - Cardinality({s \in SessIds : sess[s].isClosed})
    /\ conn[ClientConn].closed <=> \E s \in SessIds : sess[s].l = NIL /\ sess[s].isClosed
    /\ conn[ListenConn].closed => lst.die > 0

\* two Close calls on one session have returned, the second with broken pipe
C3_Witness ==
    \E t \in Threads :
        /\ ret[t].op = "Close" /\ ret[t].err = errBrokenPipe
        /\ hist[ret[t].s].closeOK = 1

\* C4: a Read or Write that was blocked on a session when it was closed
\* returns the broken-pipe error
C4_CancelledByClose ==
    \A t \in Threads :
        (ret[t].op \in {"Read", "Write"} /\ ret[t].atClose) => ret[t].err = errBrokenPipe

(***************************************************************************)
(* Read and Write.                                                          *)
(***************************************************************************)
\* thread t returns from a call of op in this step
Returns(t, op) == ret'[t] # ret[t] /\ ret'[t].op = op

\* the payloads KCP holds to send, oldest first
Pending(k) == [i \in 1..Len(k.snd_buf) |-> k.snd_buf[i].data] \o k.snd_queue

\* C5: the carry buffer turns messages into a byte stream: the bytes Read
\* has returned, followed by the carry buffer, are at every moment the
\* concatenation of the messages taken from KCP; a Read returns at most
\* len(buf) bytes, and exactly the bytes it returns are added to the stream
C5_CarryStream ==
    /\ [](\A s \in SessIds : hist[s].recvd = hist[s].readout \o sess[s].bufptr)
    /\ [][\A t \in Threads :
            (Returns(t, "Read") /\ ret'[t].err = NIL) =>
                /\ ret'[t].n <= ret'[t].blen
                /\ Len(hist'[ret'[t].s].readout)
                       = Len(hist[ret'[t].s].readout) + ret'[t].n
                /\ sess[ret'[t].s].bufptr # <<>> =>
                       hist'[ret'[t].s].recvd = hist[ret'[t].s].recvd]_vars

\* a Read into a buffer smaller than the message has left bytes in the carry
\* buffer, and an earlier Read of that thread's session returned bytes
C5_Witness ==
    \E t \in Threads :
        /\ ret[t].op = "Read" /\ ret[t].err = NIL /\ ret[t].n > 0
        /\ sess[ret[t].s].bufptr # <<>>
        /\ Len(hist[ret[t].s].recvd) > Len(sess[ret[t].s].bufptr) + ret[t].n

\* the Send calls of one Write: at most mss bytes each, all but the last
\* exactly mss, together the buffer in order
Fragmented(sends, b, mss) ==
    /\ Len(sends) >= 1
    /\ Flatten(sends) = b
    /\ \A i \in 1..Len(sends) : Len(sends[i]) <= mss
    /\ \A i \in 1..(Len(sends) - 1) : Len(sends[i]) = mss

\* C6: data reaches KCP's send side only in a step of Write taken with
\* WaitSnd < snd_wnd; that step passes the whole buffer in order as Send
\* calls of at most mss bytes (all but the last exactly mss) and returns
\* (len(b), nil); a Write that returns an error or waits has queued nothing
C6_WriteWindow ==
    [][\A s \in SessIds :
        /\ WaitSnd(sess'[s].kcp) > WaitSnd(sess[s].kcp) =>
               /\ WaitSnd(sess[s].kcp) < sess[s].kcp.snd_wnd
               /\ hist'[s].writes = hist[s].writes + 1
        /\ hist'[s].writes # hist[s].writes =>
               /\ WaitSnd(sess[s].kcp) < sess[s].kcp.snd_wnd
               /\ Fragmented(hist'[s].lastWrite.sends, hist'[s].lastWrite.b, sess[s].kcp.mss)
               /\ Pending(sess'[s].kcp)
                      = Pending(sess[s].kcp)
                        \o SelectSeq(hist'[s].lastWrite.sends, LAMBDA x : x # <<>>)
               /\ hist'[s].written = hist[s].written \o hist'[s].lastWrite.b
               /\ \E t \in Threads :
                      /\ Returns(t, "Write") /\ ret'[t].s = s
                      /\ ret'[t].err = NIL /\ ret'[t].n = ret'[t].blen
                      /\ ret'[t].n = Len(hist'[s].lastWrite.b)
        /\ \A t \in Threads :
              /\ (Returns(t, "Write") /\ ret'[t].s = s) =>
                     \/ /\ ret'[t].err = NIL /\ ret'[t].n = ret'[t].blen
                        /\ hist'[s].writes = hist[s].writes + 1
                     \/ /\ ret'[t].err \in {errTimeout, errBrokenPipe} /\ ret'[t].n = 0
                        /\ sess'[s].kcp = sess[s].kcp
              /\ (pc'[t] = "write_wait" /\ pc[t] # "write_wait" /\ frame'[t].s = s) =>
                     /\ WaitSnd(sess[s].kcp) >= sess[s].kcp.snd_wnd
                     /\ sess'[s].kcp = sess[s].kcp]_vars

\* a Write of more than mss bytes has returned its full length and
\* saturated the window, and another Write waits
C6_Witness ==
    \E t, u \in Threads :
        /\ ret[t].op = "Write" /\ ret[t].err = NIL /\ ret[t].n > Mss
        /\ Len(hist[ret[t].s].lastWrite.sends) > 1
        /\ pc[u] = "write_wait"

(***************************************************************************)
(* Deadlines.                                                               *)
(***************************************************************************)
\* thread t waits in the select of op, having found the deadline d # 0
WaitsWithDeadline(t, op, wait) ==
    pc[t] = wait /\ frame[t].op = op /\ frame[t].seen # 0

\* C7: a Read that found nothing to deliver and a non-zero read deadline
\* returns once the deadline has passed (unless the deadline is changed
\* meanwhile), and a Read returns (0, timeout) only after a non-zero read
\* deadline has passed, with nothing deliverable, leaving the session as it
\* was; a Read never waits with its deadline passed; the same for Write, its
\* deadline and the saturated window
C7_Deadlines ==
    /\ \A t \in Threads :
          /\ WaitsWithDeadline(t, "Read", "read_wait")
                ~> (pc[t] = "idle" \/ sess[frame[t].s].rd # frame[t].seen)
          /\ WaitsWithDeadline(t, "Write", "write_wait")
                ~> (pc[t] = "idle" \/ sess[frame[t].s].wd # frame[t].seen)
    /\ [][\A t \in Threads :
            /\ (Returns(t, "Read") /\ ret'[t].err = errTimeout) =>
                   /\ ret'[t].n = 0
                   /\ sess[ret'[t].s].rd # 0 /\ now > sess[ret'[t].s].rd
                   /\ sess[ret'[t].s].bufptr = <<>> /\ PeekSize(sess[ret'[t].s].kcp) <= 0
                   /\ sess' = sess
            /\ (Returns(t, "Write") /\ ret'[t].err = errTimeout) =>
                   /\ ret'[t].n = 0
                   /\ sess[ret'[t].s].wd # 0 /\ now > sess[ret'[t].s].wd
                   /\ WaitSnd(sess[ret'[t].s].kcp) >= sess[ret'[t].s].kcp.snd_wnd
                   /\ sess' = sess /\ conn' = conn
            /\ (pc'[t] = "read_wait" /\ pc[t] # "read_wait") =>
                   ~(sess[frame'[t].s].rd # 0 /\ now > sess[frame'[t].s].rd)
            /\ (pc'[t] = "write_wait" /\ pc[t] # "write_wait") =>
                   ~(sess[frame'[t].s].wd # 0 /\ now > sess[frame'[t].s].wd)]_vars

\* a Read that waited in its select has returned (0, timeout)
C7_Witness ==
    \E t \in Threads :
        /\ ret[t].op = "Read" /\ ret[t].err = errTimeout /\ ret[t].waited
        /\ now > sess[ret[t].s].rd /\ sess[ret[t].s].rd # 0

\* C8: a Read that is blocked while the session's read deadline is set and
\* has passed can leave its select (it was woken to re-evaluate), and so for
\* Write and the write deadline
C8_DeadlineWakes ==
    \A t \in Threads :
        /\ (pc[t] = "read_wait" /\ sess[frame[t].s].rd # 0 /\ now > sess[frame[t].s].rd)
              => ENABLED ReadWake(t)
        /\ (pc[t] = "write_wait" /\ sess[frame[t].s].wd # 0 /\ now > sess[frame[t].s].wd)
              => ENABLED WriteWake(t)

(***************************************************************************)
(* Ingress.                                                                 *)
(***************************************************************************)
\* the CRC32 field of d is not the CRC32 of the bytes after it
BadSum(d) == d.csum # ChecksumIEEE(d)

\* C9: with crypto, the step that takes a datagram with a wrong CRC32 off
\* the packet queue (of the client's read loop or of the listener's monitor)
\* makes no KCP.Input call, creates and caches no session, and adds exactly
\* one to InCsumErrors and nothing to any other counter; no other step
\* changes InCsumErrors
C9_BadChecksum ==
    [][/\ \A s \in SessIds :
            (rx[s].chPacket # <<>> /\ rx'[s].chPacket = Tail(rx[s].chPacket)) =>
                IF sess[s].block /\ BadSum(Head(rx[s].chPacket))
                THEN /\ sess' = sess /\ hist' = hist
                     /\ snmp' = [snmp EXCEPT !.InCsumErrors = @ + 1]
                ELSE snmp'.InCsumErrors = snmp.InCsumErrors
       /\ (lst.chPacket # <<>> /\ lst'.chPacket = Tail(lst.chPacket)) =>
                IF lst.block /\ BadSum(Head(lst.chPacket))
                THEN /\ sess' = sess /\ hist' = hist
                     /\ lst' = [lst EXCEPT !.chPacket = Tail(@)]
                     /\ snmp' = [snmp EXCEPT !.InCsumErrors = @ + 1]
                ELSE snmp'.InCsumErrors = snmp.InCsumErrors
       /\ snmp'.InCsumErrors # snmp.InCsumErrors =>
                \/ lst.chPacket # <<>> /\ lst'.chPacket = Tail(lst.chPacket)
                \/ \E s \in SessIds :
                      rx[s].chPacket # <<>> /\ rx'[s].chPacket = Tail(rx[s].chPacket)]_vars

\* the read loop and the monitor have each dropped a datagram with a wrong
\* CRC32: nothing was input and no session was created
C9_Witness ==
    /\ env.block
    /\ env.arrivals[ClientConn] = 1 /\ env.arrivals[ListenConn] = 1
    /\ snmp.InCsumErrors = 2 /\ snmp.InPkts = 0
    /\ SessIds = {1} /\ hist[1].inputs = 0

\* C10: the accept queue never holds more than acceptBacklog sessions; the
\* monitor is about to enqueue only when there is room; and the step that
\* takes a valid datagram of an unknown peer off the packet queue while the
\* accept queue is full creates no session, adds no map entry and moves no
\* counter
C10_Backlog ==
    /\ [](/\ Len(lst.chAccepts) <= acceptBacklog
           /\ lst.mon = "enqueue" => Len(lst.chAccepts) < acceptBacklog)
    /\ [][(/\ lst.chPacket # <<>> /\ lst'.chPacket = Tail(lst.chPacket)
            /\ Len(lst.chAccepts) = acceptBacklog
            /\ ~(lst.block /\ BadSum(Head(lst.chPacket)))
            /\ Head(lst.chPacket).from # lst.lastAddr
            /\ lst.sessions[Head(lst.chPacket).from] = NoSess)
           => /\ sess' = sess /\ snmp' = snmp /\ hist' = hist /\ updater' = updater
              /\ lst' = [lst EXCEPT !.chPacket = Tail(@)]]_vars

\* the accept queue is full and the monitor has dropped the first datagram
\* of a further peer
C10_Witness ==
    /\ Len(lst.chAccepts) = acceptBacklog
    /\ env.flooded > acceptBacklog
    /\ lst.chPacket = <<>> /\ lst.recv = "run" /\ lst.mon = "select"
    /\ lst.sessions[MaxTalkers + env.flooded] = NoSess

(***************************************************************************)
(* End to end.                                                              *)
(***************************************************************************)
IsPrefix(a, b) == Len(a) <= Len(b) /\ a = SubSeq(b, 1, Len(a))

\* the history of the session the listener created for the dialled one
Accepted(field) == IF 2 \in SessIds THEN hist[2][field] ELSE <<>>

\* C1: what Read has returned on one side is at every moment a prefix of
\* what Write has accepted on the other side, and eventually all of it
C1_OrderedDelivery ==
    /\ [](/\ IsPrefix(Accepted("readout"), hist[1].written)
           /\ IsPrefix(hist[1].readout, Accepted("written")))
    /\ <>[](/\ Accepted("readout") = hist[1].written
             /\ hist[1].readout = Accepted("written"))

\* bytes written on both sides have been read on the other side, after the
\* network lost a datagram
C1_Witness ==
    /\ 2 \in SessIds
    /\ env.losses > 0
    /\ Len(hist[1].written) > Mss /\ hist[2].readout = hist[1].written
    /\ Len(hist[2].written) > 0 /\ hist[1].readout = hist[2].written

(***************************************************************************)
(* The listener's demultiplexer.                                            *)
(***************************************************************************)
\* the monitor takes the next datagram off its packet queue
MonitorTakes == lst.chPacket # <<>> /\ lst'.chPacket = Tail(lst.chPacket)

\* the datagram at the head of the monitor's queue passes the checksum test
\* and comes from a peer that has no session in the map
FromStranger ==
    /\ ~(lst.block /\ BadSum(Head(lst.chPacket)))
    /\ lst.sessions[Head(lst.chPacket).from] = NoSess

\* C11: a step creates a session only when the monitor takes a valid
\* datagram of a peer without a session; with FEC that datagram's flag is
\* typeData and the new session's conversation id is the word at offset
\* fecHeaderSizePlus2, without FEC it is the word at offset 0; a datagram
\* with the flag typeFEC or an unknown flag creates no session
C11_Admission ==
    [][/\ SessIds' # SessIds =>
            /\ MonitorTakes /\ FromStranger
            /\ lst.fec => Head(lst.chPacket).flag = typeData
            /\ \E n \in SessIds' \ SessIds :
                  /\ SessIds' = SessIds \cup {n}
                  /\ lst'.sessions[Head(lst.chPacket).from] = n
                  /\ sess'[n].kcp.conv =
                        Uint32(Head(lst.chPacket), lst.fec,
                               IF lst.fec THEN fecHeaderSizePlus2 ELSE 0)
       /\ (MonitorTakes /\ lst.fec /\ Head(lst.chPacket).flag # typeData /\ FromStranger)
            => /\ sess' = sess /\ lst'.sessions = lst.sessions
               /\ lst'.chAccepts = lst.chAccepts /\ snmp' = snmp]_vars

\* a listener with FEC has dropped a first datagram that was parity or had
\* an unknown flag, and has created a session with the sender's
\* conversation id from a data datagram of another peer
C11_Witness ==
    /\ lst.fec
    /\ env.arrivals[ListenConn] = 2 /\ lst.chPacket = <<>> /\ lst.recv = "run"
    /\ snmp.InErrs = 0 /\ snmp.InCsumErrors = 0 /\ snmp.InPkts = 1
    /\ Cardinality({p \in DOMAIN lst.sessions : lst.sessions[p] # NoSess}) = 1
    /\ \E p \in DOMAIN lst.sessions :
          lst.sessions[p] # NoSess /\ sess[lst.sessions[p]].kcp.conv = ClientConv

\* C12: whenever the monitor is about to resolve a valid datagram, the
\* session it resolves with its cache is the one the session map holds for
\* the sender; and the step that takes a valid datagram of a peer whose
\* mapping is gone feeds no existing session and, with room in the accept
\* queue, creates a new one
C12_CachePure ==
    /\ [](( /\ lst.mon = "select" /\ lst.chPacket # <<>>
            /\ ~(lst.block /\ BadSum(Head(lst.chPacket))))
           => Resolve(lst, Head(lst.chPacket).from) = lst.sessions[Head(lst.chPacket).from])
    /\ [][(MonitorTakes /\ FromStranger)
           => /\ \A s \in SessIds : sess'[s] = sess[s] /\ hist'[s] = hist[s]
              /\ (Len(lst.chAccepts) < acceptBacklog /\ ~lst.fec) => SessIds' # SessIds]_vars

(***************************************************************************)
(* Counters.                                                                *)
(***************************************************************************)
\* C13: CurrEstab is the sessions opened less the sessions closed;
\* ActiveOpens counts the dialled sessions and PassiveOpens the accepted
\* ones; no session is counted closed twice; CurrEstab is never below zero
C13_Accounting ==
    /\ snmp.CurrEstab = snmp.ActiveOpens + snmp.PassiveOpens
                           - Cardinality({s \in SessIds : sess[s].isClosed})
    /\ snmp.ActiveOpens = Cardinality({s \in SessIds : sess[s].l = NIL})
    /\ snmp.PassiveOpens = Cardinality({s \in SessIds : sess[s].l # NIL})
    /\ \A s \in SessIds : hist[s].estabDecs = (IF sess[s].isClosed THEN 1 ELSE 0)
    /\ snmp.CurrEstab >= 0

\* an accepted session was closed, a second Close on it has returned broken
\* pipe, and the listener has created another session since
C13_Witness ==
    /\ snmp.PassiveOpens = 2 /\ snmp.CurrEstab = 1
    /\ \E t \in Threads :
          /\ ret[t].op = "Close" /\ ret[t].err = errBrokenPipe
          /\ sess[ret[t].s].isClosed /\ hist[ret[t].s].closeOK = 1

(***************************************************************************)
(* Carrier failure.                                                         *)
(***************************************************************************)
\* the carrier error waits on the error channel of the session of t's call
ErrorPending(s) == sess[s].chErrorEvent # <<>>

\* nothing for Read to deliver on s
NoData(s) == sess[s].bufptr = <<>> /\ PeekSize(sess[s].kcp) <= 0

\* the receiver sends the error on an empty channel (so it never blocks),
\* once, and exits with that; a Read blocked while the error is pending
\* returns or the error is taken
ErrorDelivered ==
    /\ [](\A s \in SessIds : rx[s].recv = "run" => sess[s].chErrorEvent = <<>>)
    /\ [][\A s \in SessIds :
            /\ Len(sess'[s].chErrorEvent) > Len(sess[s].chErrorEvent) =>
                   /\ rx[s].recv = "run" /\ rx'[s].recv = "exit"
                   /\ sess'[s].chErrorEvent = <<errCarrier>>
            /\ rx[s].recv = "exit" => rx'[s].recv = "exit"]_vars
    /\ \A t \in Threads :
          (pc[t] = "read_wait" /\ ErrorPending(frame[t].s))
             ~> (pc[t] = "idle" \/ ~ErrorPending(1))

\* C14 as stated: the receiver delivers the error once without blocking and
\* exits, and a Read that returns while the error is pending, with nothing
\* to deliver, returns the carrier error
C14_ErrorSurfaces ==
    /\ ErrorDelivered
    /\ [][\A t \in Threads :
            (Returns(t, "Read") /\ ErrorPending(ret'[t].s) /\ NoData(ret'[t].s))
               => ret'[t].n = 0 /\ ret'[t].err = errCarrier]_vars

\* C14, amended: such a Read returns the carrier error and takes it off the
\* channel, or broken pipe when the session is closed, or timeout when the
\* read deadline has passed, and then the error stays pending
C14_ErrorSurfacesOpen ==
    /\ ErrorDelivered
    /\ [][\A t \in Threads :
            (Returns(t, "Read") /\ ErrorPending(ret'[t].s) /\ NoData(ret'[t].s))
               => /\ ret'[t].n = 0
                  /\ \/ /\ ret'[t].err = errCarrier
                        /\ sess'[ret'[t].s].chErrorEvent = <<>>
                     \/ /\ ret'[t].err = errBrokenPipe
                        /\ sess[ret'[t].s].isClosed
                        /\ sess'[ret'[t].s].chErrorEvent # <<>>
                     \/ /\ ret'[t].err = errTimeout
                        /\ ~sess[ret'[t].s].isClosed
                        /\ DeadlinePassed(sess[ret'[t].s].rd, now)
                        /\ sess'[ret'[t].s].chErrorEvent # <<>>]_vars

\* the carrier failed with the session open and no deadline passed, and a
\* Read that had blocked has returned the carrier error
C14_Witness ==
    \E t \in Threads :
        /\ ret[t].op = "Read" /\ ret[t].err = errCarrier /\ ret[t].waited
        /\ rx[ret[t].s].recv = "exit" /\ ~sess[ret[t].s].isClosed
        /\ ~conn[ClientConn].closed

(***************************************************************************)
(* SpecAccept: a listener that MaxAccepts peers send a first datagram to,   *)
(* while the application calls Accept, sets the listener's read deadline    *)
(* and closes the listener.  The clock advances and a blocked Accept whose  *)
(* select has a ready case is scheduled.                                    *)
(***************************************************************************)
InitAccept ==
    /\ InitCommon
    /\ InitListener(FALSE, FALSE)
    /\ env = [Scenario EXCEPT !.flood = MaxAccepts, !.held = {}]

AcceptWaitCall == \E t \in Threads : AcceptWait(t)
AcceptSteps == \E t \in Threads : AcceptWake(t)
ListenerDeadlineCall ==
    \E t \in Threads, d \in 0..(MaxTime - 1) : ListenerSetReadDeadline(t, d)

NextAccept ==
    \/ ListenerIngress
    \/ ListenerExit
    \/ AcceptCall
    \/ AcceptWaitCall
    \/ AcceptSteps
    \/ ListenerDeadlineCall
    \/ ListenerCloseCall
    \/ Tick

FairAccept == WF_vars(Tick) /\ \A t \in Threads : WF_vars(AcceptWake(t))

SpecAccept == InitAccept /\ [][NextAccept]_vars /\ FairAccept

\* the timer of the Accept call thread t is in or is about to make
AcceptTimer(t) == IF pc[t] = "accept_wait" THEN frame[t] ELSE AcceptFrame(FALSE)

\* Accept returns a session only by taking the head of the accept queue, so
\* the sessions come out once each and in the order the monitor created
\* them; it returns broken pipe only when the listener is closed; a call
\* blocks only when the queue is empty and the listener is open
AcceptDequeues ==
    [][\A t \in Threads :
          /\ Returns(t, "Accept") =>
                /\ ret'[t].err = NIL =>
                      /\ lst.chAccepts # <<>>
                      /\ ret'[t].s = Head(lst.chAccepts)
                      /\ lst'.chAccepts = Tail(lst.chAccepts)
                      /\ ret'[t].s \notin env.held
                      /\ ret'[t].s = Cardinality(env.held) + 1
                      /\ env'.held = env.held \cup {ret'[t].s}
                /\ ret'[t].err # NIL =>
                      /\ ret'[t].s = NoSess
                      /\ lst'.chAccepts = lst.chAccepts
                      /\ env'.held = env.held
                /\ ret'[t].err = errBrokenPipe => lst.die > 0
                /\ ret'[t].err \in {NIL, errTimeout, errBrokenPipe}
          /\ (pc'[t] = "accept_wait" /\ pc[t] # "accept_wait") =>
                /\ lst.chAccepts = <<>>
                /\ lst.die = 0]_vars

\* a blocked Accept returns once a session is queued (unless another call
\* takes the session) and once the listener is closed
AcceptCancelled ==
    \A t \in Threads :
        /\ (pc[t] = "accept_wait" /\ lst.chAccepts # <<>>)
              ~> (pc[t] = "idle" \/ lst.chAccepts = <<>>)
        /\ (pc[t] = "accept_wait" /\ lst.die > 0) ~> (pc[t] = "idle")

\* C15: Accept blocks on the accept queue: it returns a session only by
\* dequeuing one the monitor created, each once and in creation order; with
\* the queue empty it blocks until a session is enqueued, returns timeout
\* once the listener's non-zero read deadline has passed (and only then),
\* and returns broken pipe once the listener has been closed; no Accept
\* stays blocked forever after Listener.Close
C15_Accept ==
    /\ AcceptDequeues
    /\ AcceptCancelled
    /\ [][\A t \in Threads :
            (Returns(t, "Accept") /\ ret'[t].err = errTimeout) =>
                (lst.rd # 0 /\ now >= lst.rd)]_vars
    /\ \A t \in Threads :
          (pc[t] = "accept_wait" /\ lst.chAccepts = <<>> /\ lst.rd # 0 /\ now > lst.rd)
              ~> (pc[t] = "idle" \/ lst.chAccepts # <<>> \/ lst.rd = 0)

\* C15, for the deadline the call loaded: as C15_Accept, where the deadline
\* of an Accept is the read deadline the listener held when the call began.
\* The call does not block when that deadline has passed already, returns
\* timeout only when it is non-zero and has passed, and when blocked with it
\* returns once it passes
C15_AcceptLoaded ==
    /\ AcceptDequeues
    /\ AcceptCancelled
    /\ [][\A t \in Threads :
            /\ (Returns(t, "Accept") /\ ret'[t].err = errTimeout) =>
                  (AcceptTimer(t).timer # 0 /\ now >= AcceptTimer(t).timer)
            /\ (pc'[t] = "accept_wait" /\ pc[t] # "accept_wait") =>
                  /\ lst.rd = 0 \/ now < lst.rd
                  /\ frame'[t].timer = lst.rd
            /\ (pc[t] = "accept_wait" /\ pc'[t] = "accept_wait") =>
                  frame'[t].timer = frame[t].timer]_vars
    /\ \A t \in Threads :
          (pc[t] = "accept_wait" /\ frame[t].timer # 0) ~> (pc[t] = "idle")

\* an Accept returned a session, and a later Accept that blocked on the
\* empty queue returned broken pipe after the listener was closed
C15_Witness ==
    /\ env.held # {}
    /\ lst.die > 0
    /\ \E t \in Threads :
          /\ ret[t].op = "Accept"
          /\ ret[t].waited
          /\ ret[t].err = errBrokenPipe

(***************************************************************************)
(* Write of an empty buffer.                                                *)
(***************************************************************************)
\* C16: a Write of a zero-length buffer on an open session never waits in
\* the select of Write and returns (0, nil) with KCP's send queue as it
\* was, whatever the send window and the writeDelay flag
C16_EmptyWrite ==
    [][\A t \in Threads :
          /\ (pc'[t] = "write_wait" /\ pc[t] # "write_wait") => frame'[t].blen # 0
          /\ (Returns(t, "Write") /\ ret'[t].blen = 0 /\ ~sess[ret'[t].s].isClosed) =>
                /\ ret'[t].n = 0
                /\ ret'[t].err = NIL
                /\ ~ret'[t].waited
                /\ sess'[ret'[t].s].kcp.snd_queue = sess[ret'[t].s].kcp.snd_queue]_vars

(***************************************************************************)
(* The session mutex.  Each function of a session is a program: a sequence  *)
(* of instructions, each with the fields of the session it accesses and the *)
(* instructions that may follow it (0: the function returns; more than one: *)
(* a branch, taken either way).  An instruction is "lock" (s.mu.Lock),      *)
(* "unlock" (s.mu.Unlock, also the deferred one), "use" (an access to the   *)
(* fields f; "ext" stands for what the output callback works on: the ext    *)
(* buffer, the FEC encoder, the nonce), "skip" (no access to a protected    *)
(* field) or "wait" (a select).                                             *)
(***************************************************************************)
Instr(do, f, next) == [do |-> do, f |-> f, next |-> next]

\* Read (sess.go:184-250)
ProgRead ==
    << Instr("lock", {}, {2}),                      \* 186
       Instr("use", {"bufptr"}, {3, 4}),            \* 187
       Instr("use", {"bufptr"}, {10}),              \* 188-189
       Instr("use", {"isClosed"}, {10, 5}),         \* 194
       Instr("use", {"kcp"}, {6, 7, 8}),            \* 199
       Instr("use", {"kcp"}, {10}),                 \* 202
       Instr("use", {"kcp", "bufptr"}, {10}),       \* 207-216
       Instr("use", {"rd"}, {10, 9}),               \* 223-232
       Instr("unlock", {}, {11}),                   \* 234
       Instr("unlock", {}, {0}),                    \* 190, 195, 203, 217, 226
       Instr("wait", {}, {1, 0}) >>                 \* 237-249

\* Write (sess.go:255-311)
ProgWrite ==
    << Instr("lock", {}, {2}),                                  \* 257
       Instr("use", {"isClosed"}, {8, 3}),                      \* 258
       Instr("use", {"kcp"}, {4, 6}),                           \* 265
       Instr("use", {"kcp"}, {5}),                              \* 266-275
       Instr("use", {"kcp", "writeDelay", "dup", "ext"}, {8}),  \* 278-280
       Instr("use", {"wd"}, {8, 7}),                            \* 287-296
       Instr("unlock", {}, {9}),                                \* 298
       Instr("unlock", {}, {0}),                                \* 259, 281, 291
       Instr("wait", {}, {1}) >>                                \* 301-309

\* Close (sess.go:314-333)
ProgClose ==
    << Instr("skip", {}, {2}),                      \* 316-319
       Instr("lock", {}, {3}),                      \* 321
       Instr("use", {"isClosed"}, {5, 4}),          \* 323
       Instr("use", {"isClosed"}, {5}),             \* 326-331
       Instr("unlock", {}, {0}) >>                  \* 322 (deferred)

\* the setters (sess.go:342-428): Lock, deferred Unlock, the assignment
ProgSetter(f) ==
    << Instr("lock", {}, {2}),
       Instr("use", f, {3}),
       Instr("unlock", {}, {0}) >>

\* a faulty update that flushes without the mutex
ProgUpdateUnlocked ==
    << Instr("use", {"kcp"}, {2}),
       Instr("use", {"kcp", "dup", "ext"}, {3}),
       Instr("use", {"kcp"}, {0}) >>

\* update (sess.go:525-534); flush calls the output callback (sess.go:474-522)
ProgUpdate ==
    << Instr("lock", {}, {2}),                      \* 526
       Instr("use", {"kcp"}, {3}),                  \* 527
       Instr("use", {"kcp", "dup", "ext"}, {4}),    \* 528
       Instr("use", {"kcp"}, {5}),                  \* 529-531
       Instr("unlock", {}, {0}) >>                  \* 532

\* kcpInput (sess.go:553-634): with FEC the shard is decoded before the lock
\* is taken, and a shard of a wrong length or flag is counted and left
ProgKcpInput(fec) ==
    << Instr("skip", {}, IF fec THEN {2, 0} ELSE {2}),     \* 556-563, 599-604
       Instr("lock", {}, {3}),                             \* 565, 606
       Instr("use", {"kcp"}, {4}),                         \* 566, 607
       Instr("use", {"kcp", "ackNoDelay", "dup", "ext"}, {5}),  \* 567-589, 608-610
       Instr("use", {"kcp"}, {6}),                         \* 592-597, 611-616
       Instr("unlock", {}, {0}) >>                         \* 598, 617

\* the fields each setter assigns
SetterFields ==
    [SetDeadline |-> {"rd", "wd"}, SetReadDeadline |-> {"rd"},
     SetWriteDeadline |-> {"wd"}, SetWriteDelay |-> {"writeDelay"},
     SetACKNoDelay |-> {"ackNoDelay"}, SetDUP |-> {"dup"},
     SetWindowSize |-> {"kcp"}, SetMtu |-> {"kcp"}, SetStreamMode |-> {"kcp"},
     SetNoDelay |-> {"kcp"}]

Program(op, S) ==
    CASE op = "Read" -> ProgRead
      [] op = "Write" -> ProgWrite
      [] op = "Close" -> ProgClose
      [] op = "update" -> ProgUpdate
      [] op = "kcpInput" -> ProgKcpInput(S.fec)
      [] OTHER -> ProgSetter(SetterFields[op])

\* the tasks that work on one session: the application's threads, the
\* updater, and the task that feeds it datagrams (readLoop or the monitor)
LockTasks == Threads \cup {"updater", "input"}

\* the functions each task calls
OpsOf(t) ==
    IF t = "updater" THEN {"update"}
    ELSE IF t = "input" THEN {"kcpInput"}
    ELSE {"Read", "Write", "Close"} \cup DOMAIN SetterFields

\* the instruction task t executes next
Current(t) == Program(frame[t].op, sess[frame[t].s])[frame[t].at]

\* task t calls a function of session s
Enter(t, s, op) ==
    /\ pc[t] = "idle"
    /\ pc' = [pc EXCEPT ![t] = "run"]
    /\ frame' = [frame EXCEPT ![t] = [op |-> op, s |-> s, at |-> 1]]
    /\ UNCHANGED <<sess, lst, rx, conn, updater, snmp, now, ret, hist, env>>

\* task t executes its next instruction; Lock waits for the mutex to be free
Execute(t) ==
    /\ pc[t] = "run"
    /\ \E i \in {Current(t)} :
          /\ CASE i.do = "lock" ->
                     /\ sess[frame[t].s].mu = NIL
                     /\ sess' = [sess EXCEPT ![frame[t].s].mu = t]
               [] i.do = "unlock" ->
                     sess' = [sess EXCEPT ![frame[t].s].mu = NIL]
               [] OTHER -> UNCHANGED sess
          /\ \E n \in i.next :
                IF n = 0
                THEN /\ pc' = [pc EXCEPT ![t] = "idle"]
                     /\ frame' = [frame EXCEPT ![t] = NoFrame]
                ELSE /\ frame' = [frame EXCEPT ![t].at = n]
                     /\ UNCHANGED pc
    /\ UNCHANGED <<lst, rx, conn, updater, snmp, now, ret, hist, env>>

(***************************************************************************)
(* SpecLock: one session, with or without FEC, whose functions are called   *)
(* by two application threads, the updater and the ingress task, each       *)
(* instruction a step.                                                      *)
(***************************************************************************)
InitLock ==
    /\ now = 0
    /\ pc = [t \in LockTasks |-> "idle"]
    /\ frame = [t \in LockTasks |-> NoFrame]
    /\ ret = [t \in LockTasks |-> NoRet]
    /\ conn = [c \in {ClientConn, ListenConn} |-> [closed |-> FALSE, inbox |-> <<>>]]
    /\ \E fec \in BOOLEAN : InitClient(FALSE, fec)
    /\ env = Scenario

EnterCall == \E t \in LockTasks, s \in SessIds : \E op \in OpsOf(t) : Enter(t, s, op)
ExecuteStep == \E t \in LockTasks : Execute(t)

NextLock ==
    \/ EnterCall
    \/ ExecuteStep

SpecLock == InitLock /\ [][NextLock]_vars

\* task t is about to access protected fields of session s
Accessing(t, s) == pc[t] = "run" /\ frame[t].s = s /\ Current(t).do = "use"

\* C17: every access of Read, Write, Close, the setters, update (with the
\* output callback) and kcpInput to the KCP core, the carry buffer, the
\* flags, the deadlines and isClosed is made by the task that holds the
\* session mutex; so no two tasks are at an access to one session, inside
\* KCP or the output callback in particular, at the same time
C17_Locking ==
    \A s \in SessIds :
        /\ \A t \in LockTasks : Accessing(t, s) => sess[s].mu = t
        /\ \A t, u \in LockTasks : (Accessing(t, s) /\ Accessing(u, s)) => t = u

\* the updater is inside flush and the output callback while the ingress
\* task waits for the mutex in kcpInput, one thread waits for it in Write and
\* the other is in the select of Read
C17_Witness ==
    /\ Accessing("updater", 1) /\ "ext" \in Current("updater").f
    /\ pc["input"] = "run" /\ Current("input").do = "lock"
    /\ \E t \in Threads :
          /\ pc[t] = "run" /\ frame[t].op = "Write" /\ Current(t).do = "lock"
    /\ \E t \in Threads :
          /\ pc[t] = "run" /\ frame[t].op = "Read" /\ Current(t).do = "wait"

(***************************************************************************)
(* SpecNotify: a dialled session whose application reads, writes, sets      *)
(* deadlines and closes from two threads, while an arbitrary peer sends,    *)
(* the updater flushes and the clock advances.                              *)
(***************************************************************************)
InitNotify ==
    /\ InitCommon
    /\ InitClient(FALSE, FALSE)
    /\ env = [Scenario EXCEPT !.inject = TRUE, !.budget = 1,
                               !.rbufs = {MaxBuf}, !.wbufs = {MaxBuf}]

NextNotify ==
    \/ ReadCall
    \/ WriteCall
    \/ DeadlineCall
    \/ CloseCall
    \/ ReadSteps
    \/ WriteSteps
    \/ ClientCloseSteps
    \/ ClientIngress
    \/ Updater
    \/ Tick

SpecNotify == InitNotify /\ [][NextNotify]_vars

\* thread t, woken in the select of op, returns from the locked part of op
\* with what the session's state at that moment calls for
Rechecked(t, op) ==
    LET s == ret'[t].s
        S == sess[s]
    IN  /\ pc[t] = (IF op = "Read" THEN "read_lock" ELSE "write_lock")
        /\ IF op = "Read"
           THEN /\ ret'[t].err = NIL => (S.bufptr # <<>> \/ (~S.isClosed /\ PeekSize(S.kcp) > 0))
                /\ ret'[t].err = errBrokenPipe => (S.isClosed /\ S.bufptr = <<>>)
                /\ ret'[t].err = errTimeout =>
                      /\ ~S.isClosed /\ S.bufptr = <<>> /\ PeekSize(S.kcp) <= 0
                      /\ DeadlinePassed(S.rd, now)
           ELSE /\ ret'[t].err = NIL => (~S.isClosed /\ WindowOpen(S.kcp))
                /\ ret'[t].err = errBrokenPipe => S.isClosed
                /\ ret'[t].err = errTimeout =>
                      /\ ~S.isClosed /\ ~WindowOpen(S.kcp)
                      /\ DeadlinePassed(S.wd, now)
        /\ ret'[t].err \in {NIL, errBrokenPipe, errTimeout}

\* C18: the read-event and write-event channels hold at most one
\* notification; posting while one is pending changes nothing and posting
\* always leaves one pending, so the poster never waits; a notification is
\* taken only by a waiter in the select of Read or Write, who returns nothing
\* at that step and goes back to the locked part; a caller that has waited
\* returns only from the locked part, with the result the state of the
\* session then calls for (closed, data, window, deadline), or with the
\* carrier's error from the select of Read
C18_OneShot ==
    /\ [](\A s \in SessIds :
            /\ sess[s].chReadEvent \in 0..1
            /\ sess[s].chWriteEvent \in 0..1
            /\ sess[s].chReadEvent = 1 => notifyReadEvent(sess[s]) = sess[s]
            /\ sess[s].chWriteEvent = 1 => notifyWriteEvent(sess[s]) = sess[s]
            /\ notifyReadEvent(sess[s]).chReadEvent = 1
            /\ notifyWriteEvent(sess[s]).chWriteEvent = 1)
    /\ [][\A s \in SessIds :
            /\ sess'[s].chReadEvent < sess[s].chReadEvent =>
                  \E t \in Threads :
                      /\ pc[t] = "read_wait" /\ frame[t].s = s
                      /\ pc'[t] = "read_lock" /\ ret' = ret
            /\ sess'[s].chWriteEvent < sess[s].chWriteEvent =>
                  \E t \in Threads :
                      /\ pc[t] = "write_wait" /\ frame[t].s = s
                      /\ pc'[t] = "write_lock" /\ ret' = ret]_vars
    /\ [][\A t \in Threads :
            /\ (Returns(t, "Read") /\ ret'[t].waited) =>
                  \/ Rechecked(t, "Read")
                  \/ /\ pc[t] = "read_wait"
                     /\ sess[ret'[t].s].chErrorEvent # <<>>
                     /\ ret'[t].err = Head(sess[ret'[t].s].chErrorEvent)
            /\ (Returns(t, "Write") /\ ret'[t].waited) => Rechecked(t, "Write")]_vars

\* a Read that waited has gone back to the locked part and returned a
\* timeout, and a notification is pending on each channel
C18_Witness ==
    \E t \in Threads :
        /\ ret[t].op = "Read" /\ ret[t].waited /\ ret[t].err = errTimeout
        /\ sess[ret[t].s].chReadEvent = 1
        /\ sess[ret[t].s].chWriteEvent = 1

(***************************************************************************)
(* SpecSignal: the data path of one dialled session, with or without FEC,   *)
(* attached to an arbitrary peer that sends data, acknowledgements, parity  *)
(* shards and shards with unknown flags.                                    *)
(***************************************************************************)
InitSignal ==
    /\ InitCommon
    /\ \E fec \in BOOLEAN, set \in {{}, {"SetACKNoDelay"}} :
          /\ InitClientTuned(FALSE, fec, set)
          /\ env = [Scenario EXCEPT !.inject = TRUE, !.fec = fec, !.recover = fec,
                                     !.rbufs = {MaxBuf}, !.wbufs = {MaxBuf}]

SpecSignal == InitSignal /\ [][NextData]_vars

\* readLoop hands a datagram to kcpInput, which reaches its locked part
InputStep(s) ==
    /\ rx[s].loop = "run"
    /\ rx[s].chPacket # <<>>
    /\ rx'[s].chPacket = Tail(rx[s].chPacket)
    /\ DataValid(sess[s].block, Head(rx[s].chPacket))
    /\ HeaderOK(sess[s], Head(rx[s].chPacket))

\* the updater calls update
UpdateStep(s) ==
    /\ s \in updater
    /\ <<rx, pc, frame, ret, env>>' = <<rx, pc, frame, ret, env>>

\* the write notification is posted in this step exactly if WaitSnd shrank
WriteSignalled(s) ==
    sess'[s].chWriteEvent =
        IF WaitSnd(sess'[s].kcp) < WaitSnd(sess[s].kcp) THEN 1 ELSE sess[s].chWriteEvent

\* C19: when kcpInput has run its locked part, a read notification is
\* pending if PeekSize > 0; in kcpInput and in update a write notification
\* is posted if and only if WaitSnd is smaller after the call than before;
\* both are decided in the same locked step as the input or the flush
C19_Signalling ==
    [][\A s \in SessIds :
          /\ InputStep(s) =>
                /\ PeekSize(sess'[s].kcp) > 0 => sess'[s].chReadEvent = 1
                /\ PeekSize(sess'[s].kcp) <= 0 => sess'[s].chReadEvent = sess[s].chReadEvent
                /\ WriteSignalled(s)
                /\ sess'[s].mu = sess[s].mu
          /\ UpdateStep(s) =>
                /\ WriteSignalled(s)
                /\ sess'[s].chReadEvent = sess[s].chReadEvent
                /\ sess'[s].mu = sess[s].mu]_vars

\* an acknowledgement has shrunk WaitSnd and posted the write notification
\* while a Write waited, and a message is ready with the read notification
\* pending
C19_Witness ==
    \E s \in SessIds :
        /\ hist[s].inputs > 0
        /\ PeekSize(sess[s].kcp) > 0
        /\ sess[s].chReadEvent = 1
        /\ sess[s].chWriteEvent = 1
        /\ WaitSnd(sess[s].kcp) < sess[s].kcp.snd_wnd
        /\ \E t \in Threads : pc[t] = "write_wait" /\ frame[t].s = s

(***************************************************************************)
(* Malformed datagrams.                                                     *)
(***************************************************************************)
\* with FEC, the flag of d is neither typeData nor typeFEC
UnknownFlag(fec, d) == fec /\ d.flag \notin {typeData, typeFEC}

\* the step counts one malformed datagram and does nothing else with it: no
\* KCP.Input call, no change to a session, no session created
DroppedAndCounted ==
    /\ snmp' = [snmp EXCEPT !.InErrs = @ + 1, !.InPkts = snmp'.InPkts]
    /\ hist' = hist
    /\ sess' = sess
    /\ lst'.sessions = lst.sessions
    /\ lst'.chAccepts = lst.chAccepts

\* C20: a datagram shorter than headerSize + IKCP_OVERHEAD read by a
\* receiver, and a datagram with an unknown FEC flag taken by readLoop or by
\* the monitor (for a peer with a session and for a peer without one), is
\* dropped with InErrs increased by exactly one: no KCP.Input call and no
\* session created; no shorter datagram ever reaches a queue
C20_Malformed ==
    /\ [](/\ \A s \in SessIds : \A i \in 1..Len(rx[s].chPacket) :
                rx[s].chPacket[i].n >= sess[s].headerSize + IKCP_OVERHEAD
          /\ \A i \in 1..Len(lst.chPacket) :
                lst.chPacket[i].n >= lst.headerSize + IKCP_OVERHEAD)
    /\ [][/\ env'.arrivals[ClientConn] > env.arrivals[ClientConn] =>
               \/ /\ rx'[1].recv = "hold"
                  /\ rx'[1].held.n >= sess[1].headerSize + IKCP_OVERHEAD
                  /\ snmp' = snmp
               \/ /\ rx' = rx
                  /\ DroppedAndCounted /\ snmp'.InPkts = snmp.InPkts
          /\ env'.arrivals[ListenConn] > env.arrivals[ListenConn] =>
               \/ /\ lst'.recv = "hold"
                  /\ lst'.held.n >= lst.headerSize + IKCP_OVERHEAD
                  /\ snmp' = snmp
               \/ /\ lst' = lst
                  /\ DroppedAndCounted /\ snmp'.InPkts = snmp.InPkts
          /\ \A s \in SessIds :
               (/\ rx[s].chPacket # <<>>
                /\ rx'[s].chPacket = Tail(rx[s].chPacket)
                /\ DataValid(sess[s].block, Head(rx[s].chPacket))
                /\ UnknownFlag(sess[s].fec, Head(rx[s].chPacket))) => DroppedAndCounted
          /\ (/\ MonitorTakes
              /\ DataValid(lst.block, Head(lst.chPacket))
              /\ UnknownFlag(lst.fec, Head(lst.chPacket))) => DroppedAndCounted]_vars

(***************************************************************************)
(* FEC ingress: what kcpInput hands to KCP.Input.                           *)
(***************************************************************************)
InitFec ==
    /\ InitCommon
    /\ \E block \in BOOLEAN :
          /\ InitBoth(block, TRUE)
          /\ env = [Scenario EXCEPT !.inject = TRUE, !.block = block, !.fec = TRUE,
                                     !.recover = TRUE, !.talkers = 1..MaxTalkers]

SpecFec == InitFec /\ [][NextAdmit]_vars

\* the 16-bit length in the first two bytes of shard r, the high byte first
\* (hi) or the low byte first
Prefix(r, hi) == IF hi THEN 256 * r.b0 + r.b1 ELSE r.b0 + 256 * r.b1

\* shard r holds a length prefix and the length L fits the shard
Consistent(r, L) == r.len >= 2 /\ 2 <= L /\ L <= r.len

RECURSIVE HandOff(_, _, _)
\* the recovered shards rec handed over one after the other: a consistent
\* one is passed as r[2:L] with regular = false, any other is dropped and
\* counted
HandOff(e, rec, hi) ==
    IF rec = <<>> THEN e
    ELSE IF Consistent(Head(rec), Prefix(Head(rec), hi))
    THEN HandOff([e EXCEPT !.kcp = KcpInput(@, ShardPayload(Head(rec),
                                                 Prefix(Head(rec), hi))).kcp,
                           !.inputs = @ + 1], Tail(rec), hi)
    ELSE HandOff([e EXCEPT !.fecErrs = @ + 1], Tail(rec), hi)

\* what the arrival of datagram d hands to a KCP core k: a data datagram's
\* frame with regular = true, never a parity datagram, then the recovered
\* shards
Expected(k, d, hi) ==
    HandOff(IF d.flag = typeData
            THEN [kcp |-> KcpInput(k, d.segs).kcp, inputs |-> 1, regular |-> 1, fecErrs |-> 0]
            ELSE [kcp |-> k, inputs |-> 0, regular |-> 0, fecErrs |-> 0],
            d.rec, hi)

\* the monitor hands the datagram at the head of its queue to kcpInput of
\* session s, which it finds for the sender or creates in this step
MonitorInput(s) ==
    /\ lst.mon = "select"
    /\ MonitorTakes
    /\ DataValid(lst.block, Head(lst.chPacket))
    /\ lst.fec /\ Head(lst.chPacket).flag \in {typeData, typeFEC}
    /\ IF Resolve(lst, Head(lst.chPacket).from) # NoSess
       THEN s = Resolve(lst, Head(lst.chPacket).from)
       ELSE s \notin DOMAIN sess

\* the KCP core and the history of session s before this step; a session
\* created in this step starts from a fresh core
KcpBefore(s) ==
    IF s \in DOMAIN sess THEN sess[s].kcp
    ELSE Session(ConvOf(lst, Head(lst.chPacket)), "L", ListenConn,
                 Head(lst.chPacket).from, lst.block, lst.fec).kcp

HistBefore(s) == IF s \in DOMAIN hist THEN hist[s] ELSE NoHist

\* this step leaves session s and the counters as e says
HandedOff(s, e) ==
    /\ sess'[s].kcp = e.kcp
    /\ hist'[s].inputs = HistBefore(s).inputs + e.inputs
    /\ hist'[s].regular = HistBefore(s).regular + e.regular
    /\ snmp'.FECErrs = snmp.FECErrs + e.fecErrs

\* every datagram kcpInput gets on a session with FEC is handed to KCP as
\* Expected says, its recovered shards framed by a prefix in byte order hi
FecIngress(hi) ==
    \A s \in DOMAIN sess' :
        /\ (s \in DOMAIN sess /\ sess[s].l = NIL /\ sess[s].fec /\ InputStep(s))
              => HandedOff(s, Expected(sess[s].kcp, Head(rx[s].chPacket), hi))
        /\ MonitorInput(s)
              => HandedOff(s, Expected(KcpBefore(s), Head(lst.chPacket), hi))

\* C21 as stated: with FEC, a data datagram's bytes after the 8-byte FEC
\* header go to KCP.Input with regular = true, a parity datagram does not go
\* to KCP.Input, and a recovered shard r goes with regular = false as r[2:L],
\* L the big-endian 16-bit length in its first two bytes, only when
\* 2 <= L <= len(r); otherwise it is dropped and FECErrs grows by one
C21_FecHandOff == [][FecIngress(TRUE)]_vars

\* C21 with the byte order of the source: the same, L being the
\* little-endian 16-bit length in the first two bytes of r
C21_FecHandOffLittle == [][FecIngress(FALSE)]_vars

\* a parity datagram has been counted and not input, one recovered shard
\* has been input with regular = false and another dropped and counted
C21_Witness ==
    \E s \in SessIds :
        /\ sess[s].fec
        /\ snmp.FECParityShards > 0
        /\ snmp.FECRecovered > 0
        /\ snmp.FECErrs > 0
        /\ hist[s].inputs > hist[s].regular

(***************************************************************************)
(* Listener shutdown.  Two peers send the same datagram over and over, and  *)
(* the carrier hands the datagrams over as fast as the receiver reads, so   *)
(* that the monitor's packet queue can fill up.                             *)
(***************************************************************************)
InitShutdown ==
    /\ InitCommon
    /\ InitListener(FALSE, FALSE)
    /\ env = [Scenario EXCEPT !.flood = qlen + 2, !.floodPeers = 2, !.inflight = qlen + 1,
                             !.held = {}]

NextShutdown ==
    \/ ListenerIngress
    \/ ListenerExit
    \/ ListenerCloseCall

\* the receiver and the monitor are goroutines of their own: the receiver
\* runs when it can, the monitor completes a send it has begun and takes
\* the die case of its select when that stays ready
FairShutdown ==
    /\ WF_vars(ListenerDeliver \/ ListenerFail)
    /\ WF_vars(monitorEnqueue) /\ WF_vars(monitorDie)

SpecShutdown == InitShutdown /\ [][NextShutdown]_vars /\ FairShutdown

\* C22: Listener.Close closes die and then the carrier; once both are
\* closed the receiver eventually exits, from the carrier read and from the
\* hand-off to a full packet queue alike, and the monitor eventually exits;
\* once the monitor has exited no session is created or enqueued;
\* Listener.Close marks no session closed
C22_Shutdown ==
    /\ [](conn[ListenConn].closed => lst.die > 0)
    /\ [](\A t \in Threads : pc[t] = "lclose_conn" => lst.die > 0)
    /\ (lst.die > 0 /\ conn[ListenConn].closed)
           ~> (lst.recv = "exit" /\ lst.mon = "exit")
    /\ [][lst.mon = "exit" =>
            /\ DOMAIN sess' = DOMAIN sess
            /\ lst'.sessions = lst.sessions
            /\ lst'.chAccepts = lst.chAccepts]_vars
    /\ [][lst'.die > lst.die =>
            /\ sess' = sess
            /\ \A s \in SessIds : ~sess[s].isClosed => sess'[s].die = 0]_vars

\* the listener is closed and both tasks have exited; the receiver left
\* while it held a datagram for a full packet queue, and the sessions the
\* monitor had created are not closed
C22_Witness ==
    /\ lst.die > 0
    /\ lst.recv = "exit" /\ lst.mon = "exit"
    /\ Len(lst.chPacket) = qlen
    /\ env.flooded > qlen + Cardinality(SessIds)
    /\ SessIds # {}
    /\ \A s \in SessIds : ~sess[s].isClosed /\ sess[s].die = 0

(***************************************************************************)
(* The session map under Close.                                             *)
(***************************************************************************)
\* no Close has been called on session s: it is not closed and no Close on
\* it is under way
Unclosed(s) ==
    /\ ~sess[s].isClosed
    /\ \A t \in Threads : ~(pc[t] \in {"close_notify", "close_lock"} /\ frame[t].s = s)

\* the accepted sessions of peer address p
SessionsOf(p) == {s \in SessIds : sess[s].l # NIL /\ sess[s].remote = p}

\* C23: a session-closed notification removes only the closed session's own
\* map entry: the entry of an accepted session on which no Close has been
\* called is never removed, whichever session a Close is called on, so no
\* peer address ever has two such sessions
C23_OwnEntry ==
    /\ [](\A p \in DOMAIN lst.sessions :
             Cardinality({s \in SessionsOf(p) : Unclosed(s)}) <= 1)
    /\ [][\A p \in DOMAIN lst.sessions :
             (lst.sessions[p] # NoSess /\ Unclosed(lst.sessions[p]))
                => lst'.sessions[p] = lst.sessions[p]]_vars

(***************************************************************************)
(* Blocked readers and the read notification.                               *)
(***************************************************************************)
InitWake ==
    /\ InitCommon
    /\ InitClient(FALSE, FALSE)
    /\ env = [Scenario EXCEPT !.inject = TRUE, !.rbufs = {MaxBuf}]

NextWake ==
    \/ ReadCall
    \/ ReadSteps
    \/ ClientIngress

\* a goroutine in Read runs when it can, and so do the receiver's hand-off
\* and readLoop; nothing makes the application call Read again or the peer
\* send again
FairWake ==
    /\ \A t \in Threads : WF_vars(ReadRetry(t) \/ ReadWake(t))
    /\ \A s \in {1} : WF_vars(ReceiverDeliver(s) \/ readLoop(s))

SpecWake == InitWake /\ [][NextWake]_vars /\ FairWake

\* thread t is blocked in the select of a Read on session s, which is open
\* and whose KCP holds a complete message
Starved(t, s) ==
    /\ pc[t] = "read_wait" /\ frame[t].s = s
    /\ ~sess[s].isClosed
    /\ PeekSize(sess[s].kcp) > 0

\* C24: no Read stays blocked for ever while KCP holds a complete message on
\* an open session, whatever the number of blocked readers and the
\* interleaving with kcpInput, and even if no further datagram arrives
C24_NoLostWakeup == \A t \in Threads : []<>~Starved(t, 1)

(***************************************************************************)
(* Concurrent session creation (sess.go:122-181).  The counters at the end  *)
(* of newUDPSession are moved by three atomic operations, each a step:      *)
(* the add to CurrEstab, the load of MaxConn, the compare-and-swap.         *)
(* env.peak records the largest value CurrEstab has held.                   *)
(***************************************************************************)
\* NewConn (sess.go:938-942): newUDPSession up to the add to CurrEstab
\* (sess.go:122-174)
NewConn(t) ==
    /\ CanCall(t, "NewConn")
    /\ \E n \in {NewId} :
       \E m \in {[snmp EXCEPT !.ActiveOpens = @ + 1, !.CurrEstab = @ + 1]} :
          /\ sess' = (n :> Session(ClientConv, NIL, ClientConn, ServerAddr, FALSE, FALSE)) @@ sess
          /\ rx' = (n :> ClientTasks) @@ rx
          /\ hist' = (n :> NoHist) @@ hist
          /\ updater' = updater \cup {n}
          /\ snmp' = m
          /\ env' = [Called(t, "NewConn") EXCEPT
                        !.peak = IF m.CurrEstab > @ THEN m.CurrEstab ELSE @]
          /\ pc' = [pc EXCEPT ![t] = "open_load"]
          /\ frame' = [frame EXCEPT ![t] = [op |-> "NewConn", s |-> n,
                                            currestab |-> m.CurrEstab, maxconn |-> 0]]
    /\ UNCHANGED <<lst, conn, now, ret>>

\* maxconn := atomic.LoadUint64(&DefaultSnmp.MaxConn) (sess.go:175)
LoadMaxConn(t) ==
    /\ pc[t] = "open_load"
    /\ frame' = [frame EXCEPT ![t].maxconn = snmp.MaxConn]
    /\ pc' = [pc EXCEPT ![t] = "open_cas"]
    /\ UNCHANGED <<sess, lst, rx, conn, updater, snmp, now, ret, hist, env>>

\* if currestab > maxconn { CompareAndSwapUint64(&MaxConn, maxconn,
\* currestab) }; return sess (sess.go:176-180)
SwapMaxConn(t) ==
    /\ pc[t] = "open_cas"
    /\ snmp' = IF frame[t].currestab > frame[t].maxconn /\ snmp.MaxConn = frame[t].maxconn
               THEN [snmp EXCEPT !.MaxConn = frame[t].currestab]
               ELSE snmp
    /\ pc' = [pc EXCEPT ![t] = "idle"]
    /\ frame' = [frame EXCEPT ![t] = NoFrame]
    /\ ret' = [ret EXCEPT ![t] = [op |-> "NewConn", s |-> frame[t].s]]
    /\ UNCHANGED <<sess, lst, rx, conn, updater, now, hist, env>>

\* thread t is inside newUDPSession
Opening(t) == pc[t] \in {"open_load", "open_cas"}

InitOpen ==
    /\ InitCommon
    /\ sess = <<>> /\ rx = <<>> /\ hist = <<>>
    /\ updater = {}
    /\ snmp = NoSnmp
    /\ lst = NoListener
    /\ env = [Scenario EXCEPT !.held = {}, !.callBudget = MaxCalls + 1]

NewConnCall == \E t \in Threads : NewConn(t)
OpenSteps == \E t \in Threads : LoadMaxConn(t) \/ SwapMaxConn(t)

\* the application closes a session that a NewConn has returned
OpenCloseCall ==
    \E t \in Threads, s \in SessIds :
        /\ \A u \in Threads : ~(Opening(u) /\ frame[u].s = s)
        /\ Close(t, s)

NextOpen ==
    \/ NewConnCall
    \/ OpenSteps
    \/ OpenCloseCall
    \/ ClientCloseSteps

SpecOpen == InitOpen /\ [][NextOpen]_vars

\* C25: MaxConn is the high-water mark of CurrEstab: whenever no
\* newUDPSession is mid-execution MaxConn is at least every value CurrEstab
\* has held, hence at least CurrEstab; and MaxConn never decreases
C25_HighWater ==
    /\ []((\A t \in Threads : ~Opening(t)) =>
             /\ snmp.MaxConn >= env.peak
             /\ snmp.MaxConn >= snmp.CurrEstab)
    /\ [][snmp'.MaxConn >= snmp.MaxConn]_vars

(***************************************************************************)
(* Termination of Close.                                                    *)
(***************************************************************************)
\* a goroutine in Close runs when it can; the monitor completes a send to
\* the accept queue that it has begun
FairClose ==
    /\ \A t \in Threads : WF_vars(closeSession(t) \/ CloseLocked(t))
    /\ WF_vars(monitorEnqueue)

SpecCloseFair == InitClose /\ [][NextClose]_vars /\ FairClose

\* thread t is inside Close
Closing(t) == pc[t] \in {"close_notify", "close_lock"}

\* C26: every Close call returns: a Close on an accepted session waits only
\* for the monitor to take its notification or for the listener's die, and
\* the monitor, which never blocks on the accept queue, is back at its
\* select after one step; so a Close under way can always go on or the
\* monitor can, whatever Read, Write, update, ingress, other Close calls and
\* Listener.Close do
C26_CloseReturns ==
    /\ [](\A t \in Threads :
             Closing(t) => \/ ENABLED (closeSession(t) \/ CloseLocked(t))
                           \/ lst.mon = "enqueue" /\ ENABLED monitorEnqueue)
    /\ \A t \in Threads : Closing(t) ~> (pc[t] = "idle" /\ ret[t].op = "Close")

\* a Close on an accepted session has returned after the listener was
\* closed and its monitor had exited, and another Close on the session has
\* returned broken pipe
C26_Witness ==
    /\ lst.mon = "exit"
    /\ \E s \in SessIds :
          /\ sess[s].l # NIL /\ sess[s].isClosed
          /\ lst.sessions[sess[s].remote] = s
          /\ \E t \in Threads : ret[t].op = "Close" /\ ret[t].err = errBrokenPipe

=============================================================================
